---- MODULE Spec2Model ----
(***************************************************************************)
(* TTBD: the reversible bytecode virtual machine (forward executor,        *)
(* journal, reverse executor) as a state machine.                          *)
(*                                                                         *)
(* A Word (U256) is kept as its big-endian byte string without leading     *)
(* zero bytes, so <<>> is ZERO and <<1>> is ONE; to_be_bytes pads it back  *)
(* to 32 bytes.  A byte is a number in 0..255.                             *)
(***************************************************************************)
EXTENDS Integers, Sequences, FiniteSets, TLC

(* ------------------------------ bounds -------------------------------- *)

\* Longest bytecode of the general specification.
MaxCodeLen == 3

\* Longest bytecode of the stack-permutation specification.
MaxSwapLen == 5

\* Largest memory offset an instruction of the model may touch.
MaxOffset == 64

MaxLoopLen == 4

MaxScanLen == 4

\* Scaled-down checkpoint interval and journal cap.
SmallInterval == 2

SmallCap == 20

\* step_backward keeps the checkpoints, so their list grows without bound when
\* execution goes back and forth; exploration stops stepping forward here.
MaxCheckpoints == 2

(* ------------------------- program constants -------------------------- *)

MAX_STACK_SIZE == 1024

PAGE_SIZE == 4096

DefaultCheckpointInterval == 1000

DefaultMaxSize == 10000000

(* ------------------------------- Word --------------------------------- *)

Max(a, b) == IF a >= b THEN a ELSE b

Min(a, b) == IF a <= b THEN a ELSE b

Zeros(n) == [i \in 1..n |-> 0]

RECURSIVE Strip(_)
Strip(bs) == IF bs = <<>> THEN <<>>
             ELSE IF Head(bs) = 0 THEN Strip(Tail(bs)) ELSE bs

ZERO == <<>>

ONE == <<1>>

from_be_bytes(bytes) == Strip(bytes)

to_be_bytes(w) == Zeros(32 - Len(w)) \o w

is_zero(w) == w = ZERO

RECURSIVE NatBytes(_)
NatBytes(n) == IF n = 0 THEN <<>> ELSE Append(NatBytes(n \div 256), n % 256)

\* From<u64> / From<usize>: the value in limb 0, the other limbs zero.
U256_from(n) == NatBytes(n)

RECURSIVE BytesNat(_)
BytesNat(bs) == IF bs = <<>> THEN 0
                ELSE 256 * BytesNat(SubSeq(bs, 1, Len(bs) - 1)) + bs[Len(bs)]

\* Limb 0 (the low 64 bits) as a byte string without leading zeros.
LowLimb(w) == Strip(SubSeq(w, Max(1, Len(w) - 7), Len(w)))

\* Any limb value of 2^24 or more is reported as 2^24: it lies beyond every
\* code length and memory offset of the model.
UsizeCap == 256 * 256 * 256

as_usize(w) == IF Len(LowLimb(w)) > 3 THEN UsizeCap ELSE BytesNat(LowLimb(w))

as_u64(w) == as_usize(w)

\* Byte-wise carry addition of two 32-byte strings, modulo 2^256.
RECURSIVE AddBytes(_, _, _, _)
AddBytes(a, b, i, carry) ==
    IF i = 0 THEN <<>>
    ELSE LET s == a[i] + b[i] + carry
         IN Append(AddBytes(a, b, i - 1, s \div 256), s % 256)

wrapping_add(a, b) == from_be_bytes(AddBytes(to_be_bytes(a), to_be_bytes(b), 32, 0))

(* ------------------------------ Opcode -------------------------------- *)

InRange(b, lo, hi) == b >= lo /\ b <= hi

is_push(b) == InRange(b, 96, 127)

is_dup(b) == InRange(b, 128, 143)

is_swap(b) == InRange(b, 144, 159)

is_log(b) == InRange(b, 160, 164)

\* Opcode::from_u8: TRUE iff the byte decodes to an opcode.
from_u8(b) ==
    \/ InRange(b, 0, 11)
    \/ InRange(b, 16, 29)
    \/ b = 32
    \/ InRange(b, 48, 63)
    \/ InRange(b, 64, 72)
    \/ InRange(b, 80, 91)
    \/ InRange(b, 96, 127)
    \/ InRange(b, 128, 143)
    \/ InRange(b, 144, 159)
    \/ InRange(b, 160, 164)
    \/ InRange(b, 240, 245)
    \/ b \in {250, 253, 254, 255}

OpStop == 0
OpAdd == 1

OpDiv == 4

OpLt == 16

OpGt == 17

OpPush9 == 104
OpIsZero == 21
OpEq == 20
OpPop == 80
OpMLoad == 81
OpMStore == 82
OpMStore8 == 83
OpSLoad == 84
OpSStore == 85
OpJump == 86
OpJumpI == 87
OpPc == 88
OpMSize == 89
OpGas == 90
OpJumpDest == 91
OpPush1 == 96
OpPush2 == 97
OpDup1 == 128
OpSwap1 == 144
OpSwap2 == 145
OpReturn == 243
OpRevert == 253
OpInvalid == 254
OpAddress == 48
OpCaller == 51
OpCallDataLoad == 53
OpLog0 == 160
OpCall == 241
OpUndecodable == 12

stack_inputs(b) ==
    IF is_push(b) THEN 0
    ELSE IF is_dup(b) THEN b - 128 + 1
    ELSE IF is_swap(b) THEN b - 144 + 2
    ELSE IF b \in {0, 91, 254} THEN 0
    ELSE IF b \in {48, 50, 51, 52, 54, 56, 58, 61, 65, 66, 67, 68, 69, 70, 71, 72,
                   88, 89, 90} THEN 0
    ELSE IF b \in {21, 25, 80, 81, 84, 86, 49, 59, 63, 64, 53} THEN 1
    ELSE IF b \in {1, 2, 3, 4, 5, 6, 7, 10, 11, 16, 17, 18, 19, 20, 22, 23, 24, 26,
                   27, 28, 29, 82, 83, 85, 87, 243, 253} THEN 2
    ELSE IF b \in {8, 9, 55, 57, 62, 32, 160} THEN 3
    ELSE IF b \in {60, 161, 240} THEN 4
    ELSE IF b \in {162, 245} THEN 5
    ELSE IF b \in {163, 241, 242, 244} THEN 6
    ELSE IF b \in {164, 250} THEN 7
    ELSE IF b = 255 THEN 1
    ELSE 0

stack_outputs(b) ==
    IF is_dup(b) THEN b - 128 + 2
    ELSE IF is_swap(b) THEN b - 144 + 2
    ELSE IF b \in {0, 91, 254, 80, 82, 83, 85, 86, 87, 243, 253, 255,
                   160, 161, 162, 163, 164, 55, 57, 60, 62} THEN 0
    ELSE 1

base_gas(b) ==
    IF is_push(b) \/ is_dup(b) \/ is_swap(b) THEN 3
    ELSE IF b \in {0, 254, 243, 253} THEN 0
    ELSE IF b = 91 THEN 1
    ELSE IF b \in {1, 3, 25, 16, 17, 18, 19, 20, 21, 22, 23, 24, 26, 27, 28, 29,
                   80, 88, 89, 90} THEN 3
    ELSE IF b \in {2, 4, 5, 6, 7, 11} THEN 5
    ELSE IF b \in {8, 9} THEN 8
    ELSE IF b = 86 THEN 8
    ELSE IF b = 87 THEN 10
    ELSE IF b = 32 THEN 30
    ELSE IF b \in {48, 50, 51, 52, 54, 56, 58, 65, 66, 67, 68, 69, 70, 71, 72, 61} THEN 2
    ELSE IF b \in {53, 81, 82, 83} THEN 3
    ELSE IF b \in {84, 85} THEN 100
    ELSE IF b \in {49, 63, 59} THEN 100
    ELSE IF b \in {55, 57, 62} THEN 3
    ELSE IF b = 60 THEN 100
    ELSE IF b = 64 THEN 20
    ELSE IF b = 160 THEN 375
    ELSE IF b = 161 THEN 750
    ELSE IF b = 162 THEN 1125
    ELSE IF b = 163 THEN 1500
    ELSE IF b = 164 THEN 1875
    ELSE IF b = 10 THEN 10
    ELSE IF b \in {240, 245} THEN 32000
    ELSE IF b \in {241, 242, 244, 250} THEN 100
    ELSE IF b = 255 THEN 5000
    ELSE 3

immediate_size(b) == IF is_push(b) THEN b - 96 + 1 ELSE 0

(* ------------------------------- Stack -------------------------------- *)

\* The stack is the live part data[..len] of the array, bottom first.
Stack_new == <<>>

\* Stack::peek(depth), for depth < len (callers check).
peek(stack, depth) == stack[Len(stack) - depth]

\* Stack::swap(depth), for depth < len: exchange the top with the element
\* depth below it.
swap(stack, depth) ==
    LET top_idx == Len(stack)
        other_idx == Len(stack) - depth
    IN [stack EXCEPT ![top_idx] = stack[other_idx], ![other_idx] = stack[top_idx]]

(* ------------------------------- Memory ------------------------------- *)

\* pages: length of the page vector; size: the high-water mark; data: the
\* non-zero bytes by offset (an absent offset reads as zero, as an
\* unallocated or untouched page does).
Memory_new == [pages |-> 0, size |-> 0, data |-> <<>>]

get_byte(mem, offset) == IF offset \in DOMAIN mem.data THEN mem.data[offset] ELSE 0

\* A size that follows the latest access down as well as up: what C34 rules
\* out.
ensure_size_Latest(mem, min_size) ==
    [mem EXCEPT !.pages = Max(@, (min_size + PAGE_SIZE - 1) \div PAGE_SIZE),
                !.size = min_size]

ensure_size(mem, min_size) ==
    IF min_size <= mem.size THEN mem
    ELSE [mem EXCEPT !.pages = Max(@, (min_size + PAGE_SIZE - 1) \div PAGE_SIZE),
                     !.size = min_size]

read_range(mem, offset, len) == [i \in 1..len |-> get_byte(mem, offset + i - 1)]

\* Memory::write_slice_internal: set_byte for each byte of src in turn.
write_slice_internal(mem, offset, src) ==
    IF Len(src) = 0 THEN mem
    ELSE LET range == offset..(offset + Len(src) - 1)
             val(o) == IF o \in range THEN src[o - offset + 1] ELSE mem.data[o]
             dom == {o \in (DOMAIN mem.data) \cup range : val(o) # 0}
         IN [mem EXCEPT !.pages = Max(@, ((offset + Len(src) - 1) \div PAGE_SIZE) + 1),
                        !.data = [o \in dom |-> val(o)]]

\* Memory::load: the memory after it and the word read.
load(mem, offset) ==
    LET m == ensure_size(mem, offset + 32)
    IN [mem |-> m, value |-> from_be_bytes(read_range(m, offset, 32))]

load_byte(mem, offset) ==
    LET m == ensure_size(mem, offset + 1)
    IN [mem |-> m, value |-> get_byte(m, offset)]

\* Memory::store: the memory after it and the 32 displaced bytes.
store(mem, offset, value) ==
    LET m == ensure_size(mem, offset + 32)
    IN [mem |-> write_slice_internal(m, offset, to_be_bytes(value)),
        old |-> read_range(m, offset, 32)]

store_byte(mem, offset, value) ==
    LET m == ensure_size(mem, offset + 1)
    IN [mem |-> write_slice_internal(m, offset, <<value>>),
        old |-> get_byte(m, offset)]

store_bytes(mem, offset, data) ==
    IF Len(data) = 0 THEN mem
    ELSE write_slice_internal(ensure_size(mem, offset + Len(data)), offset, data)

restore_bytes(mem, offset, data) ==
    IF Len(data) = 0 THEN mem ELSE write_slice_internal(mem, offset, data)

Memory_snapshot(mem) == read_range(mem, 0, mem.size)

Memory_restore_from(mem, snapshot) ==
    IF Len(snapshot) = 0 THEN Memory_new ELSE store_bytes(Memory_new, 0, snapshot)

(* ------------------------------ Storage ------------------------------- *)

\* data and original are the two hash maps, as functions on their key sets.
Storage_new == [data |-> <<>>, original |-> <<>>]

MapPut(m, k, v) == [x \in (DOMAIN m) \cup {k} |-> IF x = k THEN v ELSE m[x]]

Storage_get(storage, key) ==
    IF key \in DOMAIN storage.data THEN storage.data[key] ELSE ZERO

\* Storage::insert: the storage after it and the displaced value.
Storage_insert(storage, key, value) ==
    LET old == Storage_get(storage, key)
    IN [storage |-> [data |-> MapPut(storage.data, key, value),
                     original |-> IF key \in DOMAIN storage.original
                                  THEN storage.original
                                  ELSE MapPut(storage.original, key, old)],
        old |-> old]

Storage_snapshot(storage) == storage.data

Storage_restore_from(storage, snapshot) == [storage EXCEPT !.data = snapshot]

(* ------------------------------ VmState ------------------------------- *)

VmState_new(gas) ==
    [stack |-> Stack_new, memory |-> Memory_new, storage |-> Storage_new,
     pc |-> 0, gas |-> gas, call_depth |-> 0, return_data |-> <<>>]

\* Vm::analyze_jump_dests: the scan from offset i on, marking into result.
RECURSIVE ScanJumpDests(_, _, _)
ScanJumpDests(code, i, result) ==
    IF i > Len(code) THEN result
    ELSE LET opcode == code[i]
             marked == IF opcode = 91 THEN [result EXCEPT ![i] = TRUE] ELSE result
             skip == IF opcode >= 96 /\ opcode <= 127 THEN opcode - 95 ELSE 0
         IN ScanJumpDests(code, i + skip + 1, marked)

\* A scan that marks every 0x5B byte, PUSH data included: what C10 rules out.
analyze_jump_dests_NoSkip(code) == [i \in 1..Len(code) |-> code[i] = 91]

\* Position p of the bytecode (from 0) is element p + 1 of the sequence.
analyze_jump_dests(code) == ScanJumpDests(code, 1, [i \in 1..Len(code) |-> FALSE])

is_valid_jump_in(dests, dest) == IF dest < Len(dests) THEN dests[dest + 1] ELSE FALSE

\* Vm::compute_state_hash: the hashed fields themselves stand for the digest.
compute_state_hash(st) == <<st.pc, st.gas, st.stack, st.memory.size>>

create_state_snapshot(st) ==
    [stack |-> st.stack, memory |-> Memory_snapshot(st.memory),
     storage |-> Storage_snapshot(st.storage), pc |-> st.pc, gas |-> st.gas,
     call_depth |-> st.call_depth, return_data |-> st.return_data]

(* ------------------------------ Journal ------------------------------- *)

Journal_new(checkpoint_interval, max_size) ==
    [instructions |-> <<>>, checkpoints |-> <<>>,
     checkpoint_interval |-> checkpoint_interval, max_size |-> max_size]

InstructionJournal_new(pc, opcode, gas_before) ==
    [pc |-> pc, opcode |-> opcode, entries |-> <<>>, state_hash |-> <<>>,
     gas_before |-> gas_before, gas_after |-> gas_before]

\* A journal that only ever appends: what C8 as amended rules out.
record_NoTrim(j, insn) == [j EXCEPT !.instructions = Append(@, insn)]

\* A record that trims the instructions and leaves the checkpoints as they
\* are: what C19 rules out.
record_KeepCheckpoints(j, insn) ==
    IF Len(j.instructions) + 1 > j.max_size
    THEN [j EXCEPT !.instructions =
                       SubSeq(Append(@, insn), (j.max_size \div 10) + 1, Len(@) + 1)]
    ELSE [j EXCEPT !.instructions = Append(@, insn)]

\* Journal::record: push, then drop the oldest max_size / 10 entries once the
\* length exceeds max_size, re-basing the checkpoints.
record(j, insn) ==
    LET pushed == Append(j.instructions, insn)
    IN IF Len(pushed) > j.max_size
       THEN LET trim == j.max_size \div 10
                keep(c) == c.instruction_index >= trim
                kept == SelectSeq(j.checkpoints, keep)
            IN [j EXCEPT !.instructions = SubSeq(pushed, trim + 1, Len(pushed)),
                         !.checkpoints =
                             [i \in 1..Len(kept) |->
                                 [kept[i] EXCEPT !.instruction_index = @ - trim]]]
       ELSE [j EXCEPT !.instructions = pushed]

\* A cadence one instruction late: what C24 rules out.
should_checkpoint_Late(j) == Len(j.instructions) % j.checkpoint_interval = 1

should_checkpoint(j) == Len(j.instructions) % j.checkpoint_interval = 0

add_checkpoint(j, checkpoint) == [j EXCEPT !.checkpoints = Append(@, checkpoint)]

Checkpoint_new(instruction_index, snapshot) ==
    [instruction_index |-> instruction_index, state_snapshot |-> snapshot]

NoCheckpoint == [instruction_index |-> -1]

\* Journal::find_checkpoint_before: the last checkpoint of the list, in the
\* order of the list, whose index is below `index`.
find_checkpoint_before(j, index) ==
    LET hits == {k \in 1..Len(j.checkpoints) : j.checkpoints[k].instruction_index < index}
    IN IF hits = {} THEN NoCheckpoint
       ELSE j.checkpoints[CHOOSE k \in hits : \A other \in hits : k >= other]

Journal_clear(j) == [j EXCEPT !.instructions = <<>>, !.checkpoints = <<>>]

(* ------------------------- errors and results ------------------------- *)

NoError == [name |-> "None"]

StackUnderflow(required, available) ==
    [name |-> "StackUnderflow", required |-> required, available |-> available]

StackOverflow(max) == [name |-> "StackOverflow", max |-> max]

OutOfGas(required, available) ==
    [name |-> "OutOfGas", required |-> required, available |-> available]

InvalidJump(destination) == [name |-> "InvalidJump", destination |-> destination]

InvalidOpcode(opcode) == [name |-> "InvalidOpcode", opcode |-> opcode]

JournalExhausted == [name |-> "JournalExhausted"]

\* The panic of the u64 division in the DIV arm: the call never returns.
DivideByZeroPanic == [name |-> "Panic", message |-> "attempt to divide by zero"]

NoHalt == [reason |-> "None"]

HaltStop == [reason |-> "Stop"]

HaltReturn(data) == [reason |-> "Return", data |-> data]

HaltRevert(data) == [reason |-> "Revert", data |-> data]

HaltInvalidOpcode(opcode) == [reason |-> "InvalidOpcode", opcode |-> opcode]

Executed(opcode, gas_used) ==
    [kind |-> "Executed", opcode |-> opcode, gas_used |-> gas_used]

Halted(reason) == [kind |-> "Halted", reason |-> reason]

Rewound(steps) == [kind |-> "Rewound", steps |-> steps]

Err(e) == [kind |-> "Err", err |-> e]

\* The call unwound with a panic instead of returning.
Panicked(e) == [kind |-> "Panic", err |-> e]

Returned(res) == res.kind \notin {"Err", "Panic"}

OkCount(n) == [kind |-> "Ok", count |-> n]

(* ------------------------ Stack::push and pop ------------------------- *)

\* A push that never refuses: what C11 rules out.
push_Unchecked(stack, value) == [stack |-> Append(stack, value), err |-> NoError]

\* Stack::push: the stack after the call and the error, if any.
push(stack, value) ==
    IF Len(stack) >= MAX_STACK_SIZE
    THEN [stack |-> stack, err |-> StackOverflow(MAX_STACK_SIZE)]
    ELSE [stack |-> Append(stack, value), err |-> NoError]

\* Stack::pop: the stack after the call, the value popped and the error.
pop(stack) ==
    IF Len(stack) = 0
    THEN [stack |-> stack, err |-> StackUnderflow(1, 0), value |-> ZERO]
    ELSE [stack |-> SubSeq(stack, 1, Len(stack) - 1), err |-> NoError,
          value |-> stack[Len(stack)]]

(* --------------------------- journal entries -------------------------- *)

StackPush(value) == [tag |-> "StackPush", value |-> value]

StackPop(value) == [tag |-> "StackPop", value |-> value]

\* A memory delta that keeps the written bytes as the old ones: what C16
\* rules out.
MemoryWrite_NewAsOld(offset, old_data, new_data) ==
    [tag |-> "MemoryWrite", offset |-> offset, old_data |-> new_data,
     new_data |-> new_data]

MemoryWrite(offset, old_data, new_data) ==
    [tag |-> "MemoryWrite", offset |-> offset, old_data |-> old_data,
     new_data |-> new_data]

\* A storage delta that keeps the written value as the old one: what C15
\* rules out.
StorageWrite_NewAsOld(key, old_value, new_value) ==
    [tag |-> "StorageWrite", key |-> key, old_value |-> new_value,
     new_value |-> new_value]

StorageWrite(key, old_value, new_value) ==
    [tag |-> "StorageWrite", key |-> key, old_value |-> old_value,
     new_value |-> new_value]

PcChange(old_pc, new_pc) == [tag |-> "PcChange", old_pc |-> old_pc, new_pc |-> new_pc]

GasChange(old_gas, new_gas) ==
    [tag |-> "GasChange", old_gas |-> old_gas, new_gas |-> new_gas]

MemoryExpansion(old_size, new_size) ==
    [tag |-> "MemoryExpansion", old_size |-> old_size, new_size |-> new_size]

(* -------------------------- forward executor -------------------------- *)

\* An execution in progress: the state so far, the deltas emitted so far, the
\* error that stopped it (the `?` of the source) and the halt it produced.
Ctx(st) == [st |-> st, entries |-> <<>>, err |-> NoError, halt |-> NoHalt]

Emit(c, entry) == [c EXCEPT !.entries = Append(@, entry)]

\* self.state.stack.pop()? followed by journal.push(StackPop).
PopJ(c) ==
    IF c.err # NoError THEN c
    ELSE IF pop(c.st.stack).err # NoError THEN [c EXCEPT !.err = pop(c.st.stack).err]
    ELSE Emit([c EXCEPT !.st.stack = pop(c.st.stack).stack],
              StackPop(pop(c.st.stack).value))

\* self.state.stack.push(v)? followed by journal.push(StackPush).
PushJ(c, v) ==
    IF c.err # NoError THEN c
    ELSE IF push(c.st.stack, v).err # NoError
    THEN [c EXCEPT !.err = push(c.st.stack, v).err]
    ELSE Emit([c EXCEPT !.st.stack = push(c.st.stack, v).stack], StackPush(v))

\* Immediate bytes read from pc instead of pc + 1: what C22 rules out.
PushImmediate_FromPc(code, pc, size) ==
    [i \in 1..size |-> IF pc + i - 1 < Len(code) THEN code[pc + i] ELSE 0]

\* The immediate bytes of PUSHn at pc, zero where the bytecode has ended.
PushImmediate(code, pc, size) ==
    [i \in 1..size |-> IF pc + i < Len(code) THEN code[pc + i + 1] ELSE 0]

execute_push(c, code, opcode) ==
    LET size == immediate_size(opcode)
        bytes == Zeros(32 - size) \o PushImmediate(code, c.st.pc, size)
    IN PushJ(c, from_be_bytes(bytes))

execute_dup(c, opcode) ==
    LET depth == opcode - 128
    IN PushJ(c, peek(c.st.stack, depth))

execute_swap(c, opcode) ==
    LET depth == opcode - 144 + 1
        top == peek(c.st.stack, 0)
        other == peek(c.st.stack, depth)
        c1 == Emit(Emit(c, StackPop(top)), StackPop(other))
        c2 == [c1 EXCEPT !.st.stack = swap(@, depth)]
    IN Emit(Emit(c2, StackPush(top)), StackPush(other))

\* ADD: pop a then b, push a + b.
execute_add(c) ==
    LET a == peek(c.st.stack, 0)
        b == peek(c.st.stack, 1)
    IN PushJ(PopJ(PopJ(c)), wrapping_add(a, b))

execute_eq(c) ==
    LET a == peek(c.st.stack, 0)
        b == peek(c.st.stack, 1)
    IN PushJ(PopJ(PopJ(c)), IF a = b THEN ONE ELSE ZERO)

\* DIV: pop a then b, push ZERO if b is zero, else the quotient of the low
\* limbs; the u64 division panics when the low limb of a non-zero b is zero.
execute_div(c) ==
    LET a == peek(c.st.stack, 0)
        b == peek(c.st.stack, 1)
        c1 == PopJ(PopJ(c))
    IN IF is_zero(b) THEN PushJ(c1, ZERO)
       ELSE IF as_u64(b) = 0 THEN [c1 EXCEPT !.err = DivideByZeroPanic]
       ELSE PushJ(c1, U256_from(as_u64(a) \div as_u64(b)))

\* LT / GT: pop a then b, compare the low limbs.
execute_lt(c) ==
    LET a == peek(c.st.stack, 0)
        b == peek(c.st.stack, 1)
    IN PushJ(PopJ(PopJ(c)), IF as_u64(a) < as_u64(b) THEN ONE ELSE ZERO)

execute_gt(c) ==
    LET a == peek(c.st.stack, 0)
        b == peek(c.st.stack, 1)
    IN PushJ(PopJ(PopJ(c)), IF as_u64(a) > as_u64(b) THEN ONE ELSE ZERO)

execute_iszero(c) ==
    LET a == peek(c.st.stack, 0)
    IN PushJ(PopJ(c), IF is_zero(a) THEN ONE ELSE ZERO)

execute_mload(c) ==
    LET offset == peek(c.st.stack, 0)
        c1 == PopJ(c)
        old_size == c1.st.memory.size
        r == load(c1.st.memory, as_usize(offset))
        c2 == [c1 EXCEPT !.st.memory = r.mem]
        c3 == IF r.mem.size > old_size
              THEN Emit(c2, MemoryExpansion(old_size, r.mem.size)) ELSE c2
    IN PushJ(c3, r.value)

execute_mstore(c) ==
    LET offset == peek(c.st.stack, 0)
        value == peek(c.st.stack, 1)
        c1 == PopJ(PopJ(c))
        old_size == c1.st.memory.size
        r == store(c1.st.memory, as_usize(offset), value)
        c2 == [c1 EXCEPT !.st.memory = r.mem]
        c3 == IF r.mem.size > old_size
              THEN Emit(c2, MemoryExpansion(old_size, r.mem.size)) ELSE c2
    IN Emit(c3, MemoryWrite(as_usize(offset), r.old, to_be_bytes(value)))

execute_mstore8(c) ==
    LET offset == peek(c.st.stack, 0)
        value == peek(c.st.stack, 1)
        c1 == PopJ(PopJ(c))
        byte == IF value = ZERO THEN 0 ELSE value[Len(value)]
        r == store_byte(c1.st.memory, as_usize(offset), byte)
    IN Emit([c1 EXCEPT !.st.memory = r.mem],
            MemoryWrite(as_usize(offset), <<r.old>>, <<byte>>))

execute_sload(c) ==
    LET key == peek(c.st.stack, 0)
        c1 == PopJ(c)
    IN PushJ(c1, Storage_get(c1.st.storage, key))

execute_sstore(c) ==
    LET key == peek(c.st.stack, 0)
        value == peek(c.st.stack, 1)
        c1 == PopJ(PopJ(c))
        r == Storage_insert(c1.st.storage, key, value)
    IN Emit([c1 EXCEPT !.st.storage = r.storage], StorageWrite(key, r.old, value))

\* The taken branch of JUMP / JUMPI, after the pops.
TakeJump(c, dests, dest) ==
    LET dest_usize == as_usize(dest)
    IN IF ~is_valid_jump_in(dests, dest_usize)
       THEN [c EXCEPT !.err = InvalidJump(dest_usize)]
       ELSE Emit([c EXCEPT !.st.pc = dest_usize], PcChange(c.st.pc, dest_usize))

execute_jump(c, dests) ==
    LET dest == peek(c.st.stack, 0)
    IN TakeJump(PopJ(c), dests, dest)

execute_jumpi(c, dests) ==
    LET dest == peek(c.st.stack, 0)
        cond == peek(c.st.stack, 1)
        c1 == PopJ(PopJ(c))
    IN IF ~is_zero(cond) THEN TakeJump(c1, dests, dest) ELSE c1

\* RETURN / REVERT: load_byte of every byte of the slice.
execute_return(c, reason) ==
    LET offset == as_usize(peek(c.st.stack, 0))
        size == as_usize(peek(c.st.stack, 1))
        c1 == PopJ(PopJ(c))
        m == IF size = 0 THEN c1.st.memory ELSE ensure_size(c1.st.memory, offset + size)
        return_data == read_range(m, offset, size)
    IN [c1 EXCEPT !.st.memory = m, !.halt = [reason |-> reason, data |-> return_data]]

execute_opcode(st, code, dests, opcode) ==
    LET c == Ctx(st)
    IN IF is_push(opcode) THEN execute_push(c, code, opcode)
       ELSE IF is_dup(opcode) THEN execute_dup(c, opcode)
       ELSE IF is_swap(opcode) THEN execute_swap(c, opcode)
       ELSE IF opcode = OpStop THEN [c EXCEPT !.halt = HaltStop]
       ELSE IF opcode = OpAdd THEN execute_add(c)
       ELSE IF opcode = OpDiv THEN execute_div(c)
       ELSE IF opcode = OpIsZero THEN execute_iszero(c)
       ELSE IF opcode = OpLt THEN execute_lt(c)
       ELSE IF opcode = OpGt THEN execute_gt(c)
       ELSE IF opcode = OpEq THEN execute_eq(c)
       ELSE IF opcode = OpPop THEN PopJ(c)
       ELSE IF opcode = OpMLoad THEN execute_mload(c)
       ELSE IF opcode = OpMStore THEN execute_mstore(c)
       ELSE IF opcode = OpMStore8 THEN execute_mstore8(c)
       ELSE IF opcode = OpSLoad THEN execute_sload(c)
       ELSE IF opcode = OpSStore THEN execute_sstore(c)
       ELSE IF opcode = OpJump THEN execute_jump(c, dests)
       ELSE IF opcode = OpJumpI THEN execute_jumpi(c, dests)
       ELSE IF opcode = OpPc THEN PushJ(c, U256_from(st.pc))
       ELSE IF opcode = OpMSize THEN PushJ(c, U256_from(st.memory.size))
       ELSE IF opcode = OpGas THEN PushJ(c, U256_from(st.gas))
       ELSE IF opcode = OpJumpDest THEN c
       ELSE IF opcode = OpReturn THEN execute_return(c, "Return")
       ELSE IF opcode = OpRevert THEN execute_return(c, "Revert")
       ELSE IF opcode = OpInvalid THEN [c EXCEPT !.halt = HaltInvalidOpcode(opcode)]
       ELSE c

\* A step that advances pc but leaves the gas alone: what C31 rules out.
Charged_NoDeduction(st, old_pc, opcode_byte) ==
    IF st.pc = old_pc
    THEN [st EXCEPT !.pc = old_pc + 1 + immediate_size(opcode_byte)]
    ELSE st

\* step_forward, lines 51-60: deduct the gas, then advance pc unless the
\* opcode moved it.
Charged(st, old_pc, opcode_byte) ==
    IF st.pc = old_pc
    THEN [st EXCEPT !.gas = @ - base_gas(opcode_byte),
                    !.pc = old_pc + 1 + immediate_size(opcode_byte)]
    ELSE [st EXCEPT !.gas = @ - base_gas(opcode_byte)]

\* The GasChange and PcChange deltas of those lines.
ChargeEntries(entries, st, old_pc, opcode_byte) ==
    IF st.pc = old_pc
    THEN entries \o <<GasChange(st.gas, st.gas - base_gas(opcode_byte)),
                      PcChange(old_pc, old_pc + 1 + immediate_size(opcode_byte))>>
    ELSE Append(entries, GasChange(st.gas, st.gas - base_gas(opcode_byte)))

\* step_forward, lines 65-69: the checkpoint taken when the length of the
\* journal is a multiple of the interval.
WithCheckpoint(j, st) ==
    IF should_checkpoint(j)
    THEN add_checkpoint(j, Checkpoint_new(Len(j.instructions), create_state_snapshot(st)))
    ELSE j

\* A variant of Complete that records the deltas emitted before an error as
\* an instruction of the journal: what C4 rules out.
Complete_KeepPartial(vm, opcode_byte, c) ==
    IF c.err # NoError
    THEN [vm |-> [vm EXCEPT
                    !.state = c.st,
                    !.journal = record(@, [pc |-> vm.state.pc,
                                           opcode |-> opcode_byte,
                                           entries |-> c.entries,
                                           state_hash |-> compute_state_hash(c.st),
                                           gas_before |-> vm.state.gas,
                                           gas_after |-> vm.state.gas])],
          res |-> Err(c.err)]
    ELSE [vm |-> [vm EXCEPT
                    !.state = Charged(c.st, vm.state.pc, opcode_byte),
                    !.journal = WithCheckpoint(
                        record(@, [pc |-> vm.state.pc,
                                   opcode |-> opcode_byte,
                                   entries |-> ChargeEntries(c.entries, c.st,
                                                             vm.state.pc, opcode_byte),
                                   state_hash |-> compute_state_hash(
                                       Charged(c.st, vm.state.pc, opcode_byte)),
                                   gas_before |-> vm.state.gas,
                                   gas_after |-> c.st.gas - base_gas(opcode_byte)]),
                        Charged(c.st, vm.state.pc, opcode_byte))],
          res |-> IF c.halt # NoHalt THEN Halted(c.halt)
                  ELSE Executed(opcode_byte, base_gas(opcode_byte))]

\* step_forward, lines 46-75, given the outcome c of execute_opcode.
Complete(vm, opcode_byte, c) ==
    IF c.err # NoError
    THEN [vm |-> [vm EXCEPT !.state = c.st],
          res |-> IF c.err = DivideByZeroPanic THEN Panicked(c.err) ELSE Err(c.err)]
    ELSE [vm |-> [vm EXCEPT
                    !.state = Charged(c.st, vm.state.pc, opcode_byte),
                    !.journal = WithCheckpoint(
                        record(@, [pc |-> vm.state.pc,
                                   opcode |-> opcode_byte,
                                   entries |-> ChargeEntries(c.entries, c.st,
                                                             vm.state.pc, opcode_byte),
                                   state_hash |-> compute_state_hash(
                                       Charged(c.st, vm.state.pc, opcode_byte)),
                                   gas_before |-> vm.state.gas,
                                   gas_after |-> c.st.gas - base_gas(opcode_byte)]),
                        Charged(c.st, vm.state.pc, opcode_byte))],
          res |-> IF c.halt # NoHalt THEN Halted(c.halt)
                  ELSE Executed(opcode_byte, base_gas(opcode_byte))]

\* A variant of Dispatch that checks gas before arity: what C9 rules out.
Dispatch_GasFirst(vm, code, dests, opcode_byte) ==
    IF ~from_u8(opcode_byte)
    THEN [vm |-> vm, res |-> Err(InvalidOpcode(opcode_byte))]
    ELSE IF vm.state.gas < base_gas(opcode_byte)
    THEN [vm |-> vm, res |-> Err(OutOfGas(base_gas(opcode_byte), vm.state.gas))]
    ELSE IF Len(vm.state.stack) < stack_inputs(opcode_byte)
    THEN [vm |-> vm,
          res |-> Err(StackUnderflow(stack_inputs(opcode_byte), Len(vm.state.stack)))]
    ELSE Complete(vm, opcode_byte, execute_opcode(vm.state, code, dests, opcode_byte))

\* A variant of Dispatch without the gas check: what C12 rules out.
Dispatch_NoGasCheck(vm, code, dests, opcode_byte) ==
    IF ~from_u8(opcode_byte)
    THEN [vm |-> vm, res |-> Err(InvalidOpcode(opcode_byte))]
    ELSE IF Len(vm.state.stack) < stack_inputs(opcode_byte)
    THEN [vm |-> vm,
          res |-> Err(StackUnderflow(stack_inputs(opcode_byte), Len(vm.state.stack)))]
    ELSE Complete(vm, opcode_byte, execute_opcode(vm.state, code, dests, opcode_byte))

\* step_forward, lines 31-49: decode, check arity and gas, execute.
Dispatch(vm, code, dests, opcode_byte) ==
    IF ~from_u8(opcode_byte)
    THEN [vm |-> vm, res |-> Err(InvalidOpcode(opcode_byte))]
    ELSE IF Len(vm.state.stack) < stack_inputs(opcode_byte)
    THEN [vm |-> vm,
          res |-> Err(StackUnderflow(stack_inputs(opcode_byte), Len(vm.state.stack)))]
    ELSE IF vm.state.gas < base_gas(opcode_byte)
    THEN [vm |-> vm, res |-> Err(OutOfGas(base_gas(opcode_byte), vm.state.gas))]
    ELSE Complete(vm, opcode_byte, execute_opcode(vm.state, code, dests, opcode_byte))

\* A step_forward that journals the fall-off as an instruction of its own:
\* what C30 rules out.
step_forward_JournalFallOff(vm, code, dests) ==
    IF vm.state.pc >= Len(code)
    THEN [vm |-> [vm EXCEPT !.journal = record(@, [pc |-> vm.state.pc,
                                                   opcode |-> OpStop,
                                                   entries |-> <<>>,
                                                   state_hash |-> compute_state_hash(vm.state),
                                                   gas_before |-> vm.state.gas,
                                                   gas_after |-> vm.state.gas])],
          res |-> Halted(HaltStop)]
    ELSE Dispatch(vm, code, dests, code[vm.state.pc + 1])

\* Vm::step_forward on vm = [state, journal, call_stack]: the vm after the
\* call and the value returned.
step_forward(vm, code, dests) ==
    IF vm.state.pc >= Len(code) THEN [vm |-> vm, res |-> Halted(HaltStop)]
    ELSE Dispatch(vm, code, dests, code[vm.state.pc + 1])

\* ExecutionResult, and the Ok value run builds from a halt.
Success(return_data, gas_used) ==
    [kind |-> "Success", return_data |-> return_data, gas_used |-> gas_used]

Revert(return_data, gas_used) ==
    [kind |-> "Revert", return_data |-> return_data, gas_used |-> gas_used]

Halt(reason, gas_used) == [kind |-> "Halt", reason |-> reason, gas_used |-> gas_used]

ExecutionResult(reason, gas_used) ==
    IF reason.reason = "Stop" THEN Success(<<>>, gas_used)
    ELSE IF reason.reason = "Return" THEN Success(reason.data, gas_used)
    ELSE IF reason.reason = "Revert" THEN Revert(reason.data, gas_used)
    ELSE Halt(reason, gas_used)

\* A run that stops after its first step whatever that step returned: what
\* C13 rules out.
RunNext_OneStep(r, code, dests, initial_gas) ==
    IF ~Returned(r.res) THEN r
    ELSE [vm |-> r.vm,
          res |-> ExecutionResult(HaltStop, initial_gas - r.vm.state.gas)]

\* Vm::run: the loop, after one step_forward returned r.
RECURSIVE RunLoop(_, _, _, _)
RunNext(r, code, dests, initial_gas) ==
    IF ~Returned(r.res) THEN r
    ELSE IF r.res.kind = "Halted"
    THEN [vm |-> r.vm,
          res |-> ExecutionResult(r.res.reason, initial_gas - r.vm.state.gas)]
    ELSE RunLoop(r.vm, code, dests, initial_gas)

RunLoop(vm, code, dests, initial_gas) ==
    RunNext(step_forward(vm, code, dests), code, dests, initial_gas)

run(vm, code, dests) == RunLoop(vm, code, dests, vm.state.gas)

(* -------------------------- reverse executor -------------------------- *)

\* apply_inverse: the vm after it and the error, if any.
apply_inverse(vm, entry) ==
    LET st == vm.state
        ok(v) == [vm |-> v, err |-> NoError]
    IN CASE entry.tag = "StackPush" ->
                [vm |-> [vm EXCEPT !.state.stack = pop(st.stack).stack],
                 err |-> pop(st.stack).err]
         [] entry.tag = "StackPop" ->
                [vm |-> [vm EXCEPT !.state.stack = push(st.stack, entry.value).stack],
                 err |-> push(st.stack, entry.value).err]
         [] entry.tag = "MemoryWrite" ->
                ok([vm EXCEPT !.state.memory =
                                  restore_bytes(@, entry.offset, entry.old_data)])
         [] entry.tag = "StorageWrite" ->
                ok([vm EXCEPT !.state.storage =
                                  Storage_insert(@, entry.key, entry.old_value).storage])
         [] entry.tag = "PcChange" -> ok([vm EXCEPT !.state.pc = entry.old_pc])
         [] entry.tag = "GasChange" -> ok([vm EXCEPT !.state.gas = entry.old_gas])
         [] entry.tag = "CallEnter" ->
                ok([vm EXCEPT !.call_stack = SubSeq(@, 1, Len(@) - 1),
                              !.state.call_depth = Max(0, @ - 1)])
         [] entry.tag = "CallExit" -> ok([vm EXCEPT !.state.call_depth = @ + 1])
         [] entry.tag = "ReturnDataSet" ->
                ok([vm EXCEPT !.state.return_data = entry.old_data])
         [] entry.tag = "MemoryExpansion" -> ok(vm)

\* The loop of step_backward: entries[1..i] still to be undone, last first;
\* it stops at the first error.  UndoNext continues after one apply_inverse.
RECURSIVE UndoEntries(_, _, _)
UndoNext(r, entries, i) ==
    IF r.err # NoError THEN r ELSE UndoEntries(r.vm, entries, i - 1)

UndoEntries(vm, entries, i) ==
    IF i = 0 THEN [vm |-> vm, err |-> NoError]
    ELSE UndoNext(apply_inverse(vm, entries[i]), entries, i)

BackwardResult(r) ==
    [vm |-> r.vm, res |-> IF r.err # NoError THEN Err(r.err) ELSE Rewound(1)]

step_backward(vm) ==
    IF Len(vm.journal.instructions) = 0 THEN [vm |-> vm, res |-> Err(JournalExhausted)]
    ELSE BackwardResult(
             UndoEntries([vm EXCEPT !.journal.instructions = SubSeq(@, 1, Len(@) - 1)],
                         vm.journal.instructions[Len(vm.journal.instructions)].entries,
                         Len(vm.journal.instructions[Len(vm.journal.instructions)].entries)))

\* Vm::rewind: the loop with n iterations left and `rewound` done.
RECURSIVE RewindLoop(_, _, _)
RewindNext(r, n, rewound) ==
    IF r.res.kind = "Err" THEN r ELSE RewindLoop(r.vm, n - 1, rewound + 1)

RewindLoop(vm, n, rewound) ==
    IF n = 0 \/ Len(vm.journal.instructions) = 0
    THEN [vm |-> vm, res |-> OkCount(rewound)]
    ELSE RewindNext(step_backward(vm), n, rewound)

rewind(vm, n) == RewindLoop(vm, n, 0)

RewindToResult(r) ==
    IF r.res.kind = "Err" THEN r ELSE [vm |-> r.vm, res |-> OkCount(0)]

rewind_to(vm, target_index) ==
    IF target_index >= Len(vm.journal.instructions) THEN [vm |-> vm, res |-> OkCount(0)]
    ELSE RewindToResult(rewind(vm, Len(vm.journal.instructions) - target_index))

restore_from_snapshot(vm, snapshot) ==
    [vm EXCEPT !.state.stack = SubSeq(snapshot.stack, 1,
                                      Min(Len(snapshot.stack), MAX_STACK_SIZE)),
               !.state.memory = Memory_restore_from(@, snapshot.memory),
               !.state.storage = Storage_restore_from(@, snapshot.storage),
               !.state.pc = snapshot.pc,
               !.state.gas = snapshot.gas,
               !.state.call_depth = snapshot.call_depth,
               !.state.return_data = snapshot.return_data]

reset(vm, gas) ==
    [vm EXCEPT !.state = VmState_new(gas), !.journal = Journal_clear(@),
               !.call_stack = <<>>]

Vm_new(gas, checkpoint_interval, max_size) ==
    [state |-> VmState_new(gas),
     journal |-> Journal_new(checkpoint_interval, max_size),
     call_stack |-> <<>>]

(* ------------------------- debugger: TimeTravel ----------------------- *)

\* Breakpoint: the variants of the enum.
BpAddress(addr) == [tag |-> "Address", addr |-> addr]

BpOpcode(op) == [tag |-> "Opcode", op |-> op]

BpStorageAccess(key) == [tag |-> "StorageAccess", key |-> key]

BpGasBelow(threshold) == [tag |-> "GasBelow", threshold |-> threshold]

BpMemoryAccess(start, end) == [tag |-> "MemoryAccess", start |-> start, end |-> end]

BpAfterInstructions(n) == [tag |-> "AfterInstructions", n |-> n]

\* StopReason: the variants run_forward and run_backward return.
StopBreakpoint(id) == [kind |-> "Breakpoint", id |-> id]

StopHalt(reason) == [kind |-> "StopHalt", reason |-> reason]

ReachedBeginning == [kind |-> "ReachedBeginning"]

\* The fields of TimeTravel next to its vm.
TimeTravel_new == [breakpoints |-> <<>>, next_breakpoint_id |-> 0, instruction_count |-> 0]

add_breakpoint(tt, bp) ==
    [tt EXCEPT !.breakpoints = Append(@, [id |-> tt.next_breakpoint_id, bp |-> bp]),
               !.next_breakpoint_id = @ + 1]

remove_breakpoint(tt, id) ==
    LET keep(e) == e.id # id
    IN [tt EXCEPT !.breakpoints = SelectSeq(@, keep)]

\* The match expression of check_breakpoints for one breakpoint.
BreakpointMatches(bp, vm, code, tt) ==
    CASE bp.tag = "Address" -> vm.state.pc = bp.addr
      [] bp.tag = "Opcode" -> vm.state.pc < Len(code) /\ code[vm.state.pc + 1] = bp.op
      [] bp.tag = "GasBelow" -> vm.state.gas < bp.threshold
      [] bp.tag = "AfterInstructions" -> tt.instruction_count >= bp.n
      [] OTHER -> FALSE

NoBreakpoint == [kind |-> "None"]

\* A check that reports the last breakpoint that matches: what C32 rules out.
check_breakpoints_Last(vm, code, tt) ==
    LET hits == {k \in 1..Len(tt.breakpoints) :
                     BreakpointMatches(tt.breakpoints[k].bp, vm, code, tt)}
    IN IF hits = {} THEN NoBreakpoint
       ELSE StopBreakpoint(tt.breakpoints[CHOOSE k \in hits : \A j \in hits : k >= j].id)

\* check_breakpoints: the first breakpoint of the list that matches, or none.
check_breakpoints(vm, code, tt) ==
    LET hits == {k \in 1..Len(tt.breakpoints) :
                     BreakpointMatches(tt.breakpoints[k].bp, vm, code, tt)}
    IN IF hits = {} THEN NoBreakpoint
       ELSE StopBreakpoint(tt.breakpoints[CHOOSE k \in hits : \A j \in hits : k <= j].id)

saturating_sub(a, b) == IF a >= b THEN a - b ELSE 0

\* TimeTravel::step_forward, after the step of the vm returned r.
TT_step_forward(r, tt) ==
    [vm |-> r.vm, res |-> r.res,
     tt |-> IF r.res.kind = "Executed" THEN [tt EXCEPT !.instruction_count = @ + 1] ELSE tt]

\* TimeTravel::step_backward, after the step of the vm returned r.
TT_step_backward(r, tt) ==
    [vm |-> r.vm, res |-> r.res,
     tt |-> IF r.res.kind = "Rewound"
            THEN [tt EXCEPT !.instruction_count = saturating_sub(@, 1)] ELSE tt]

\* TimeTravel::rewind, after the rewind of the vm returned r.
TT_rewind(r, tt) ==
    [vm |-> r.vm, res |-> r.res,
     tt |-> IF r.res.kind = "Err" THEN tt
            ELSE [tt EXCEPT !.instruction_count = saturating_sub(@, r.res.count)]]

\* TimeTravel::run_forward: the loop. `states` collects the state before each
\* instruction the loop journals.
RECURSIVE RunForwardLoop(_, _, _, _, _)
RunForwardNext(before, r, code, dests, tt, states) ==
    IF r.res.kind = "Err"
    THEN [vm |-> r.vm, res |-> r.res, tt |-> tt, states |-> states]
    ELSE IF r.res.kind = "Halted"
    THEN [vm |-> r.vm, res |-> StopHalt(r.res.reason), tt |-> tt,
          states |-> IF r.vm.journal # before.journal
                     THEN Append(states, before.state) ELSE states]
    ELSE RunForwardLoop(r.vm, code, dests, [tt EXCEPT !.instruction_count = @ + 1],
                        Append(states, before.state))

RunForwardLoop(vm, code, dests, tt, states) ==
    IF check_breakpoints(vm, code, tt) # NoBreakpoint
    THEN [vm |-> vm, res |-> check_breakpoints(vm, code, tt), tt |-> tt, states |-> states]
    ELSE RunForwardNext(vm, step_forward(vm, code, dests), code, dests, tt, states)

run_forward(vm, code, dests, tt, states) == RunForwardLoop(vm, code, dests, tt, states)

\* TimeTravel::run_backward: the loop.
RECURSIVE RunBackwardLoop(_, _, _)
RunBackwardNext(r, code, tt) ==
    IF r.res.kind = "Err" THEN [vm |-> r.vm, res |-> r.res, tt |-> tt]
    ELSE RunBackwardLoop(r.vm, code,
                         [tt EXCEPT !.instruction_count = saturating_sub(@, 1)])

RunBackwardLoop(vm, code, tt) ==
    IF Len(vm.journal.instructions) = 0
    THEN [vm |-> vm, res |-> ReachedBeginning, tt |-> tt]
    ELSE IF check_breakpoints(vm, code, tt) # NoBreakpoint
    THEN [vm |-> vm, res |-> check_breakpoints(vm, code, tt), tt |-> tt]
    ELSE RunBackwardNext(step_backward(vm), code, tt)

run_backward(vm, code, tt) == RunBackwardLoop(vm, code, tt)

(* --------------------------- the state machine ------------------------ *)

\* bytecode, jump_dests: the immutable fields of the Vm; vm: its state,
\* journal and call stack; last: the latest call, the value it returned
\* and the length of the journal before it;
\* trail: for each journaled instruction, the VmState before it;
\* phase: the shape of the calls since construction or reset (PhaseAfter).
VARIABLES bytecode, jump_dests, vm, last, trail, phase, dbg

vars == <<bytecode, jump_dests, vm, last, trail, phase, dbg>>

\* All byte strings over `alphabet` of length at most n.
Programs(alphabet, n) == UNION {[1..k -> alphabet] : k \in 0..n}

Gases == {2, 5, 100}

RewindCounts == 0..2

InitOver(programs, gases, intervals, caps) ==
    /\ bytecode \in programs
    /\ jump_dests = analyze_jump_dests(bytecode)
    /\ dbg = TimeTravel_new
    /\ \E gas \in gases, k \in intervals, m \in caps : vm = Vm_new(gas, k, m)
    /\ last = [op |-> "new", res |-> OkCount(0), len |-> 0]
    /\ trail = <<>>
    /\ phase = "fwd"

\* The opcode step_forward would execute, or -1 when it would not execute one.
NextOpcode ==
    LET st == vm.state
    IN IF st.pc >= Len(bytecode) THEN -1
       ELSE LET b == bytecode[st.pc + 1]
            IN IF from_u8(b) /\ Len(st.stack) >= stack_inputs(b) /\ st.gas >= base_gas(b)
               THEN b ELSE -1

\* The instruction about to run stays within the memory the model covers.
WithinMemory ==
    LET b == NextOpcode
        stack == vm.state.stack
    IN IF b \in {OpMLoad, OpMStore, OpMStore8}
       THEN as_usize(peek(stack, 0)) <= MaxOffset
       ELSE IF b \in {OpReturn, OpRevert}
       THEN as_usize(peek(stack, 0)) + as_usize(peek(stack, 1)) <= MaxOffset
       ELSE TRUE

\* trail follows the journal: one VmState per recorded instruction.
TrailAfter(pushed) ==
    IF pushed
    THEN SubSeq(Append(trail, vm.state),
                Len(trail) + 2 - Len(vm'.journal.instructions), Len(trail) + 1)
    ELSE SubSeq(trail, 1, Min(Len(vm'.journal.instructions), Len(trail)))

\* phase tells how the calls since construction or reset went: "fwd" only
\* step_forward calls without error; "failed" those and then one that failed;
\* "back" successful forward steps and then successful step_backward calls;
\* "ran" one run() on the fresh VM that returned Ok; "unran" that and then
\* successful step_backward calls; "reran" those down to an empty journal and
\* then a second run() that returned Ok;
\* "mixed" any other run of step_forward and step_backward; "other" a run
\* with any other call in it.
PhaseAfter(op, res) ==
    IF op = "reset" THEN "fwd"
    ELSE IF op = "run"
    THEN (IF phase = "fwd" /\ last.op \in {"new", "reset"} /\ res.kind # "Err"
          THEN "ran"
          ELSE IF phase = "unran" /\ vm.journal.instructions = <<>>
                  /\ res.kind # "Err"
          THEN "reran" ELSE "other")
    ELSE IF phase \in {"ran", "unran", "reran"}
    THEN (IF op = "step_backward" /\ phase # "reran" /\ res.kind # "Err"
          THEN "unran" ELSE "other")
    ELSE IF phase = "other" \/ op \notin {"step_forward", "step_backward"} THEN "other"
    ELSE IF op = "step_forward"
    THEN (IF phase # "fwd" THEN "mixed"
          ELSE IF ~Returned(res) THEN "failed" ELSE "fwd")
    ELSE (IF phase \in {"fwd", "back"} /\ res.kind # "Err" THEN "back" ELSE "mixed")

\* A call `op` that returned r.res and left the vm as r.vm.
Call(op, r) ==
    /\ last.res.kind # "Panic"
    /\ vm' = r.vm
    /\ last' = [op |-> op, res |-> r.res, len |-> Len(vm.journal.instructions)]
    /\ trail' = TrailAfter(op = "step_forward" /\ r.res.kind # "Err"
                           /\ r.vm.journal # vm.journal)
    /\ phase' = PhaseAfter(op, r.res)

StepForward ==
    /\ WithinMemory
    /\ Len(vm.journal.checkpoints) < MaxCheckpoints
    /\ Call("step_forward", step_forward(vm, bytecode, jump_dests))
    /\ UNCHANGED <<bytecode, jump_dests, dbg>>

StepBackward ==
    /\ Call("step_backward", step_backward(vm))
    /\ UNCHANGED <<bytecode, jump_dests, dbg>>

Rewind(n) ==
    /\ Call("rewind", rewind(vm, n))
    /\ UNCHANGED <<bytecode, jump_dests, dbg>>

RewindTo(target_index) ==
    /\ Call("rewind_to", rewind_to(vm, target_index))
    /\ UNCHANGED <<bytecode, jump_dests, dbg>>

Reset(gas) ==
    /\ Call("reset", [vm |-> reset(vm, gas), res |-> OkCount(0)])
    /\ UNCHANGED <<bytecode, jump_dests, dbg>>

Next ==
    \/ StepForward
    \/ StepBackward
    \/ \E n \in RewindCounts : Rewind(n)
    \/ \E i \in RewindCounts : RewindTo(i)
    \/ \E gas \in Gases : Reset(gas)

\* The general specification: every bytecode over these bytes, built by
\* Vm::new (checkpoint interval 1000, cap 10,000,000).
Alphabet ==
    {OpStop, OpUndecodable, OpPop, OpMStore, OpJump, OpJumpI, OpPc, OpJumpDest, OpPush1}

Init ==
    InitOver(Programs(Alphabet, MaxCodeLen), Gases,
             {DefaultCheckpointInterval}, {DefaultMaxSize})

Spec == Init /\ [][Next]_vars

\* Stack permutations: values are told apart by the pc that pushed them.
SwapAlphabet == {OpPc, OpSwap1, OpSwap2}

InitSwap ==
    InitOver(Programs(SwapAlphabet, MaxSwapLen), {100},
             {DefaultCheckpointInterval}, {DefaultMaxSize})

SpecSwap == InitSwap /\ [][Next]_vars

\* Halting instructions and failing jumps, with the interval of Vm::new and
\* a small one, so that checkpoints exist when an instruction fails.
HaltAlphabet == {OpPc, OpStop, OpReturn, OpRevert, OpInvalid, OpJump, OpUndecodable}

InitHalt ==
    InitOver(Programs(HaltAlphabet, MaxCodeLen), Gases,
             {DefaultCheckpointInterval, SmallInterval}, {DefaultMaxSize})

SpecHalt == InitHalt /\ [][Next]_vars

\* Loops (JUMPDEST; PUSH1 0; JUMP) long enough to fill a journal built by
\* Journal::new with a small cap.
LoopAlphabet == {OpStop, OpJump, OpJumpDest, OpPush1}

InitJournal ==
    InitOver(Programs(LoopAlphabet, MaxLoopLen), {100},
             {DefaultCheckpointInterval, SmallCap - 1}, {SmallCap, SmallCap \div 4})

SpecJournal == InitJournal /\ [][Next]_vars

\* The same loops on a journal whose cap is reached after a checkpoint was
\* taken, so that trimming re-bases the checkpoint down to removal.
InitCap ==
    InitOver(Programs(LoopAlphabet, MaxLoopLen), {100},
             {SmallCap \div 3}, {SmallCap \div 2})

SpecCap == InitCap /\ [][Next]_vars

\* Bytecode where JUMPDEST bytes fall inside and outside PUSH data.
ScanAlphabet == {OpStop, OpJump, OpJumpDest, OpPush1, OpPush2}

InitScan ==
    InitOver(Programs(ScanAlphabet, MaxScanLen), {100},
             {DefaultCheckpointInterval}, {DefaultMaxSize})

SpecScan == InitScan /\ [][Next]_vars

\* A caller filling the stack through Vm::state_mut, as the loop of
\* test_overflow does: n pushes of ONE, stopping at the first that fails.
StackFill(n) ==
    /\ Call("stack_fill",
            [vm |-> [vm EXCEPT !.state.stack =
                         @ \o [i \in 1..Min(n, MAX_STACK_SIZE - Len(@)) |-> ONE]],
             res |-> IF Len(vm.state.stack) + n > MAX_STACK_SIZE
                     THEN Err(push(vm.state.stack \o
                                   [i \in 1..(MAX_STACK_SIZE - Len(vm.state.stack)) |-> ONE],
                                   ONE).err)
                     ELSE OkCount(n)])
    /\ UNCHANGED <<bytecode, jump_dests, dbg>>

FillCounts == {MAX_STACK_SIZE - 1, MAX_STACK_SIZE}

NextStack ==
    \/ Next
    \/ \E n \in FillCounts : StackFill(n)

\* Instructions that push and pop, on a stack a caller may have filled.
StackAlphabet == {OpPop, OpPc, OpDup1}

InitStack ==
    InitOver(Programs(StackAlphabet, MaxCodeLen), {100},
             {DefaultCheckpointInterval}, {DefaultMaxSize})

SpecStack == InitStack /\ [][NextStack]_vars

\* Vm::run as a call of its own, next to the calls that step.
\* The states before each instruction a run journals, after those in acc.
RECURSIVE RunTrail(_, _, _, _)
RunTrailNext(before, r, code, dests, acc) ==
    IF ~Returned(r.res) THEN acc
    ELSE IF r.res.kind = "Halted"
    THEN (IF r.vm.journal # before.journal THEN Append(acc, before.state) ELSE acc)
    ELSE RunTrail(r.vm, code, dests, Append(acc, before.state))

RunTrail(v, code, dests, acc) ==
    RunTrailNext(v, step_forward(v, code, dests), code, dests, acc)

RunCall(r, states) ==
    /\ last.res.kind # "Panic"
    /\ vm' = r.vm
    /\ last' = [op |-> "run", res |-> r.res, len |-> Len(vm.journal.instructions)]
    /\ trail' = SubSeq(states, Len(states) + 1 - Len(r.vm.journal.instructions),
                       Len(states))
    /\ phase' = PhaseAfter("run", r.res)

Run ==
    /\ WithinMemory
    /\ vm.state.memory.size <= MaxOffset
    /\ RunCall(run(vm, bytecode, jump_dests), RunTrail(vm, bytecode, jump_dests, trail))
    /\ UNCHANGED <<bytecode, jump_dests, dbg>>

NextRun ==
    \/ Next
    \/ Run

SpecRun == Init /\ [][NextRun]_vars

\* Programs that read the memory size or memory next to writes of it.
ReplayAlphabet == {OpStop, OpPc, OpMSize, OpMLoad, OpMStore}

InitReplay ==
    InitOver(Programs(ReplayAlphabet, MaxCodeLen), {100},
             {DefaultCheckpointInterval}, {DefaultMaxSize})

SpecReplay == InitReplay /\ [][NextRun]_vars

\* Programs made of statements that store a gas reading or the memory size
\* under the key 0 (MSIZE) or a gas reading.
MaxStores == 2

\* Gas for three SSTOREs (base gas 100 each) and the pushes that feed them.
StoreGas == 350

StoreStatements ==
    {<<OpGas, OpMSize, OpSStore>>, <<OpGas, OpGas, OpSStore>>,
     <<OpMSize, OpMSize, OpSStore>>}

RECURSIVE StorePrograms(_)
StorePrograms(n) ==
    IF n = 0 THEN {<<>>}
    ELSE LET shorter == StorePrograms(n - 1)
         IN shorter \cup {p \o stmt : p \in shorter, stmt \in StoreStatements}

InitStore ==
    InitOver(StorePrograms(MaxStores), {StoreGas},
             {DefaultCheckpointInterval}, {DefaultMaxSize})

SpecStore == InitStore /\ [][Next]_vars

\* Programs made of statements that write a gas reading to memory: a word
\* at offset 1 or 3, or a byte at offset 32, so that the writes overlap.
MaxWrites == 2

WriteStatements ==
    {<<OpGas, OpPush1, 1, OpMStore>>, <<OpGas, OpPush1, 3, OpMStore>>,
     <<OpGas, OpPush1, 32, OpMStore8>>}

RECURSIVE WritePrograms(_)
WritePrograms(n) ==
    IF n = 0 THEN {<<>>}
    ELSE LET shorter == WritePrograms(n - 1)
         IN shorter \cup {p \o stmt : p \in shorter, stmt \in WriteStatements}

InitWrite ==
    InitOver(WritePrograms(MaxWrites), {100},
             {DefaultCheckpointInterval}, {DefaultMaxSize})

SpecWrite == InitWrite /\ [][Next]_vars

\* Vm::restore_from_snapshot on the snapshot of the k-th checkpoint.
RestoreFromSnapshot(k) ==
    /\ k <= Len(vm.journal.checkpoints)
    /\ Call("restore_from_snapshot",
            [vm |-> restore_from_snapshot(vm, vm.journal.checkpoints[k].state_snapshot),
             res |-> OkCount(0)])
    /\ UNCHANGED <<bytecode, jump_dests, dbg>>

NextRestore ==
    \/ Next
    \/ \E k \in 1..MaxCheckpoints : RestoreFromSnapshot(k)

\* Programs that write memory after a checkpoint, on a journal that takes a
\* checkpoint every SmallInterval instructions.
RestoreAlphabet == {OpStop, OpPc, OpMStore}

InitRestore ==
    InitOver(Programs(RestoreAlphabet, MaxCodeLen), {100},
             {SmallInterval}, {DefaultMaxSize})

SpecRestore == InitRestore /\ [][NextRestore]_vars

\* Pushes of 0, 6, 7, 2^64 and 2^64 + 7: operands that differ in the low
\* limb, in the limb above it, or in both.
OperandPushes ==
    {<<OpPush1, 0>>, <<OpPush1, 6>>, <<OpPush1, 7>>,
     <<OpPush9, 1, 0, 0, 0, 0, 0, 0, 0, 0>>, <<OpPush9, 1, 0, 0, 0, 0, 0, 0, 0, 7>>}

\* Programs that push b, push a and apply a binary opcode to them.
ArithPrograms ==
    {push_b \o push_a \o <<opcode>> :
         push_b \in OperandPushes, push_a \in OperandPushes,
         opcode \in {OpDiv, OpLt, OpGt, OpEq}}

InitArith ==
    InitOver(ArithPrograms, {100}, {DefaultCheckpointInterval}, {DefaultMaxSize})

SpecArith == InitArith /\ [][Next]_vars

\* Opcodes that execute_opcode leaves to its default arm: an environmental
\* opcode without and one with a stack input, a LOG and a call.
DefaultArmOpcodes == {OpCaller, OpCallDataLoad, OpLog0, OpCall}

MaxArgs == 6

NoOpGas == 500

\* Programs that fill the stack with up to MaxArgs program counters and then
\* run an opcode of the default arm.
NoOpPrograms ==
    {[i \in 1..n |-> OpPc] \o <<opcode>> : n \in 0..MaxArgs, opcode \in DefaultArmOpcodes}

InitNoOp ==
    InitOver(NoOpPrograms, {NoOpGas}, {DefaultCheckpointInterval}, {DefaultMaxSize})

SpecNoOp == InitNoOp /\ [][Next]_vars

\* Programs that write one byte or nothing, push a size and an offset, and
\* return or revert.
ReturnPrograms ==
    {prefix \o <<OpPush1, size, OpPush1, offset, opcode>> :
         prefix \in {<<>>, <<OpPush1, 7, OpPush1, 1, OpMStore8>>},
         size \in 0..2, offset \in {0, 1, 3}, opcode \in {OpReturn, OpRevert}}

InitReturn ==
    InitOver(ReturnPrograms, {100}, {DefaultCheckpointInterval}, {DefaultMaxSize})

SpecReturn == InitReturn /\ [][Next]_vars

(* ----------------------- the debugger state machine -------------------- *)

\* A call `op` of the debugger that returned r.res and left the vm as r.vm and
\* its own fields as r.tt.
DebuggerCall(op, r) ==
    /\ Call(op, [vm |-> r.vm, res |-> r.res])
    /\ dbg' = r.tt

\* A failed step_backward leaves the counter alone, so the counter can grow
\* without bound; the forward calls stop at this count.
MaxInstructionCount == 4

DebuggerStepForward ==
    /\ Len(vm.journal.checkpoints) < MaxCheckpoints
    /\ dbg.instruction_count < MaxInstructionCount
    /\ DebuggerCall("step_forward",
                    TT_step_forward(step_forward(vm, bytecode, jump_dests), dbg))
    /\ UNCHANGED <<bytecode, jump_dests>>

DebuggerStepBackward ==
    /\ DebuggerCall("step_backward", TT_step_backward(step_backward(vm), dbg))
    /\ UNCHANGED <<bytecode, jump_dests>>

DebuggerRewind(n) ==
    /\ DebuggerCall("rewind", TT_rewind(rewind(vm, n), dbg))
    /\ UNCHANGED <<bytecode, jump_dests>>

RunForwardCall(r) ==
    /\ vm' = r.vm
    /\ dbg' = r.tt
    /\ last' = [op |-> "run_forward", res |-> r.res, len |-> Len(vm.journal.instructions)]
    /\ trail' = SubSeq(r.states, Len(r.states) + 1 - Len(r.vm.journal.instructions),
                       Len(r.states))
    /\ phase' = "other"

RunForward ==
    /\ dbg.instruction_count < MaxInstructionCount
    /\ RunForwardCall(run_forward(vm, bytecode, jump_dests, dbg, trail))
    /\ UNCHANGED <<bytecode, jump_dests>>

RunBackward ==
    /\ DebuggerCall("run_backward", run_backward(vm, bytecode, dbg))
    /\ UNCHANGED <<bytecode, jump_dests>>

MaxBreakpoints == 2

BreakGas == 96

BreakCount == 2

\* One breakpoint of each variant.
BreakpointChoices ==
    {BpAddress(1), BpOpcode(OpStop), BpStorageAccess(ZERO), BpGasBelow(BreakGas),
     BpMemoryAccess(0, 32), BpAfterInstructions(BreakCount)}

\* The breakpoints are set before the first step: step_forward ignores them,
\* so every state of the VM stays reachable under every list of breakpoints.
SettingUp == last.op \in {"new", "add_breakpoint", "remove_breakpoint"}

AddBreakpoint(bp) ==
    /\ SettingUp
    /\ dbg.next_breakpoint_id < MaxBreakpoints
    /\ dbg' = add_breakpoint(dbg, bp)
    /\ last' = [op |-> "add_breakpoint", res |-> OkCount(dbg.next_breakpoint_id),
                len |-> Len(vm.journal.instructions)]
    /\ UNCHANGED <<bytecode, jump_dests, vm, trail, phase>>

RemoveBreakpoint(id) ==
    /\ SettingUp
    /\ dbg' = remove_breakpoint(dbg, id)
    /\ last' = [op |-> "remove_breakpoint",
                res |-> OkCount(Len(dbg.breakpoints) - Len(dbg'.breakpoints)),
                len |-> Len(vm.journal.instructions)]
    /\ UNCHANGED <<bytecode, jump_dests, vm, trail, phase>>

NextDebugger ==
    \/ DebuggerStepForward
    \/ DebuggerStepBackward
    \/ \E n \in RewindCounts : DebuggerRewind(n)
    \/ RunForward
    \/ RunBackward
    \/ \E bp \in BreakpointChoices : AddBreakpoint(bp)
    \/ \E id \in {0} : RemoveBreakpoint(id)

\* Programs of one to three instructions that end by falling off the end,
\* at a STOP, or at a JUMP that fails.
DebuggerPrograms ==
    {body \o ending : body \in {<<OpPc>>, <<OpPc, OpPc>>, <<OpJumpDest, OpPc>>},
                      ending \in {<<>>, <<OpStop>>, <<OpJump>>}}

InitDebugger ==
    InitOver(DebuggerPrograms, {100},
             {DefaultCheckpointInterval}, {DefaultMaxSize})

SpecDebugger == InitDebugger /\ [][NextDebugger]_vars

\* Up to MaxAccesses memory accesses: a word read, a word write or a byte
\* write, at offset 1 or 32, so that a later access can lie below an earlier.
MaxAccesses == 2

AccessStatements ==
    {<<OpPush1, offset, OpMLoad>> : offset \in {1, 32}}
        \cup {<<OpGas, OpPush1, offset, opcode>> :
                  offset \in {1, 32}, opcode \in {OpMStore, OpMStore8}}

RECURSIVE AccessPrograms(_)
AccessPrograms(n) ==
    IF n = 0 THEN {<<>>}
    ELSE LET shorter == AccessPrograms(n - 1)
         IN shorter \cup {p \o stmt : p \in shorter, stmt \in AccessStatements}

InitMemory ==
    InitOver(AccessPrograms(MaxAccesses), {100},
             {DefaultCheckpointInterval}, {DefaultMaxSize})

SpecMemory == InitMemory /\ [][Next]_vars

\* Forward steps up to MaxStale checkpoints, so that the checkpoints of two
\* multiples of the interval and a later one of the first multiple coexist.
MaxStale == 3

MaxStaleLen == 4

StepForwardStale ==
    /\ WithinMemory
    /\ Len(vm.journal.checkpoints) < MaxStale
    /\ Call("step_forward", step_forward(vm, bytecode, jump_dests))
    /\ UNCHANGED <<bytecode, jump_dests, dbg>>

NextStale ==
    \/ StepForwardStale
    \/ StepBackward
    \/ \E n \in RewindCounts : Rewind(n)

InitStale ==
    InitOver(Programs({OpPc, OpJumpDest}, MaxStaleLen), {100},
             {SmallInterval}, {DefaultMaxSize})

SpecStale == InitStale /\ [][NextStale]_vars

\* Programs that start at a JUMPDEST, push a condition and a destination,
\* jump, and end at a JUMPDEST.
JumpPrograms ==
    {<<OpJumpDest>> \o push_cond \o push_dest \o <<opcode, OpJumpDest>> :
         push_cond \in OperandPushes, push_dest \in OperandPushes,
         opcode \in {OpJump, OpJumpI}}

InitJump ==
    InitOver(JumpPrograms, {100}, {DefaultCheckpointInterval}, {DefaultMaxSize})

SpecJump == InitJump /\ [][Next]_vars

\* Loops and arithmetic, driven by run() as well as step by step.
InitBounded ==
    InitOver(ArithPrograms \cup Programs(LoopAlphabet, MaxLoopLen), Gases,
             {DefaultCheckpointInterval}, {DefaultMaxSize})

SpecBounded == InitBounded /\ [][NextRun]_vars

(* ------------------------------ properties ---------------------------- *)

\* What a caller can observe of two VmStates is the same: pc, gas, the stack,
\* storage as read by get, the memory size, call depth and return data.
SameObservable(a, b) ==
    /\ a.pc = b.pc
    /\ a.gas = b.gas
    /\ a.stack = b.stack
    /\ \A key \in (DOMAIN a.storage.data) \cup (DOMAIN b.storage.data) :
           Storage_get(a.storage, key) = Storage_get(b.storage, key)
    /\ a.memory.size = b.memory.size
    /\ a.call_depth = b.call_depth
    /\ a.return_data = b.return_data

\* C1 (round-trip identity): from a fresh VM, after k recorded forward steps
\* without error, each of k step_backward calls returns Rewound, and the k-th
\* leaves pc, gas, stack, storage, memory size, call depth and return data as
\* they were before the first forward step.
C1_RoundTrip ==
    [][(/\ phase \in {"fwd", "back"}
        /\ last'.op = "step_backward"
        /\ vm.journal.instructions # <<>>)
       => /\ last'.res = Rewound(1)
          /\ (vm'.journal.instructions = <<>>
              => SameObservable(vm'.state, trail[1]))]_vars

\* pc, gas, stack, memory bytes and size, and storage of two VmStates agree.
SameMachine(a, b) ==
    /\ a.pc = b.pc
    /\ a.gas = b.gas
    /\ a.stack = b.stack
    /\ a.memory.data = b.memory.data
    /\ a.memory.size = b.memory.size
    /\ \A key \in (DOMAIN a.storage.data) \cup (DOMAIN b.storage.data) :
           Storage_get(a.storage, key) = Storage_get(b.storage, key)

\* C2 (errors change nothing): whenever step_forward returns an error, pc,
\* gas, stack, memory bytes and size, and storage are as before the call.
C2_ErrorLeavesState ==
    [][(last'.op = "step_forward" /\ last'.res.kind = "Err")
       => SameMachine(vm'.state, vm.state)]_vars

\* C3 (backward after a failed step): when a step_forward fails after j >= 1
\* successful forward steps, the next step_backward returns Rewound and leaves
\* the state the VM had after the first j-1 instructions and a journal of
\* length j-1.
C3_BackwardAfterFailure ==
    [][(phase = "failed" /\ Len(trail) >= 1 /\ last'.op = "step_backward")
       => /\ last'.res = Rewound(1)
          /\ SameObservable(vm'.state, trail[Len(trail)])
          /\ SameMachine(vm'.state, trail[Len(trail)])
          /\ Len(vm'.journal.instructions) = Len(trail) - 1]_vars

\* C5 (JournalExhausted iff empty): after any interleaving of step_forward and
\* step_backward calls, step_backward returns JournalExhausted when the
\* journal is empty and Rewound when it is not, and no other error.
C5_BackwardResult ==
    [][(phase # "other" /\ last'.op = "step_backward")
       => last'.res = IF vm.journal.instructions = <<>>
                      THEN Err(JournalExhausted) ELSE Rewound(1)]_vars

\* C6 (halt is final): a step_forward that directly follows a step_forward
\* that returned Halted returns Halted{Stop} and changes neither the state
\* nor the journal.
C6_HaltedStaysHalted ==
    [][(/\ last.op = "step_forward"
        /\ last.res.kind = "Halted"
        /\ last'.op = "step_forward")
       => /\ last'.res = Halted(HaltStop)
          /\ vm' = vm]_vars

\* C7 (SWAPn round trip): a step_forward that executed SWAPn followed by one
\* step_backward leaves the stack exactly as it was before the SWAPn.
C7_SwapRoundTrip ==
    [][(/\ last.op = "step_forward"
        /\ last.res.kind = "Executed"
        /\ is_swap(last.res.opcode)
        /\ last'.op = "step_backward")
       => vm'.state.stack = trail[Len(trail)].stack]_vars

\* C4 (journal atomicity): a step_forward that returns an error leaves the
\* instructions and the checkpoints of the journal as they were; one that
\* returns Executed, or Halted from STOP, RETURN, REVERT or INVALID, appends
\* exactly one instruction journal, that of the instruction at pc (below the
\* cap nothing else changes; at the cap only oldest entries may go).
C4_JournalAtomic ==
    [][last'.op = "step_forward"
       => LET old == vm.journal.instructions
              new == vm'.journal.instructions
          IN /\ last'.res.kind = "Err"
                => /\ new = old
                   /\ vm'.journal.checkpoints = vm.journal.checkpoints
             /\ (\/ last'.res.kind = "Executed"
                 \/ /\ last'.res.kind = "Halted"
                    /\ NextOpcode \in {OpStop, OpReturn, OpRevert, OpInvalid})
                => /\ new # <<>>
                   /\ new[Len(new)].pc = vm.state.pc
                   /\ new[Len(new)].opcode = bytecode[vm.state.pc + 1]
                   /\ \E d \in 0..Len(old) :
                          /\ Len(old) < vm.journal.max_size => d = 0
                          /\ new = SubSeq(Append(old, new[Len(new)]),
                                          d + 1, Len(old) + 1)]_vars

\* A JUMP has failed after popping its operand, with instructions and a
\* checkpoint in the journal.
C4_Witness ==
    /\ last.op = "step_forward"
    /\ last.res.kind = "Err"
    /\ last.res.err.name = "InvalidJump"
    /\ vm.journal.checkpoints # <<>>
    /\ Len(vm.journal.instructions) = last.len
    /\ last.len >= 1

\* C9 (order of checks): step_forward reports the first violation in the order
\* end of bytecode, opcode recognition, stack arity, gas, opcode-specific.
C9_CheckOrder ==
    [][last'.op = "step_forward"
       => LET st == vm.state
              past == st.pc >= Len(bytecode)
              b == bytecode[st.pc + 1]
              res == last'.res
          IN /\ past => res = Halted(HaltStop)
             /\ (~past /\ ~from_u8(b)) => res = Err(InvalidOpcode(b))
             /\ (~past /\ from_u8(b) /\ Len(st.stack) < stack_inputs(b))
                => res = Err(StackUnderflow(stack_inputs(b), Len(st.stack)))
             /\ (res.kind = "Err" /\ res.err.name = "OutOfGas")
                => /\ ~past /\ from_u8(b)
                   /\ Len(st.stack) >= stack_inputs(b)
                   /\ res = Err(OutOfGas(base_gas(b), st.gas))
             /\ (res.kind = "Err" /\ res.err.name = "InvalidJump")
                => /\ ~past /\ from_u8(b)
                   /\ Len(st.stack) >= stack_inputs(b)
                   /\ st.gas >= base_gas(b)]_vars

\* step_forward has returned StackUnderflow for an opcode the gas left could
\* not pay for either.
C9_Witness ==
    /\ last.op = "step_forward"
    /\ last.res.kind = "Err"
    /\ last.res.err.name = "StackUnderflow"
    /\ vm.state.pc < Len(bytecode)
    /\ vm.state.gas < base_gas(bytecode[vm.state.pc + 1])
    /\ last.res.err.required = stack_inputs(bytecode[vm.state.pc + 1])

\* step_forward is about to record an instruction: it will neither fail nor
\* stop at the end of the bytecode.
Records(res) ==
    /\ Returned(res)
    /\ vm.state.pc < Len(bytecode)

\* C8 (journal monotonicity), as claimed: the journal grows by exactly one on
\* every step_forward that returns Executed, and no step_forward leaves it
\* shorter than it found it, for every interval and cap.
C8_Monotone ==
    [][last'.op = "step_forward"
       => /\ last'.res.kind = "Executed"
             => Len(vm'.journal.instructions) = Len(vm.journal.instructions) + 1
          /\ Len(vm'.journal.instructions) >= Len(vm.journal.instructions)]_vars

\* C8 as amended: a step_forward that records an instruction leaves the
\* journal at len + 1 when that is within the cap M and at
\* len + 1 - floor(M / 10) when it is not; one that fails or stops at the end
\* of the bytecode leaves the length alone; and the length decreases only by a
\* step_forward at the cap, step_backward, rewind, rewind_to or reset.
C8_MonotoneBelowCap ==
    [][LET len == Len(vm.journal.instructions)
           M == vm.journal.max_size
       IN /\ last'.op = "step_forward"
             => Len(vm'.journal.instructions) =
                    IF ~Records(last'.res) THEN len
                    ELSE IF len + 1 > M THEN len + 1 - (M \div 10)
                    ELSE len + 1
          /\ Len(vm'.journal.instructions) < len
             => \/ last'.op \in {"step_backward", "rewind", "rewind_to", "reset"}
                \/ last'.op = "step_forward" /\ len >= M]_vars

\* A step_forward has found the journal at its cap and left it shorter.
C8_Witness ==
    /\ last.op = "step_forward"
    /\ last.res.kind = "Executed"
    /\ last.len = vm.journal.max_size
    /\ Len(vm.journal.instructions) = last.len + 1 - (vm.journal.max_size \div 10)
    /\ Len(vm.journal.instructions) < last.len

\* The offsets (from 0) at which the linear scan from offset i finds an
\* instruction: after PUSHn it skips n bytes, after any other byte none.
RECURSIVE InstructionStarts(_, _)
InstructionStarts(code, i) ==
    IF i >= Len(code) THEN {}
    ELSE {i} \cup InstructionStarts(code, i + 1 + immediate_size(code[i + 1]))

\* Offset i lies in the immediate window of a PUSHn the scan finds.
InPushWindow(code, i) ==
    \E s \in InstructionStarts(code, 0) :
        /\ is_push(code[s + 1])
        /\ s < i
        /\ i <= s + immediate_size(code[s + 1])

JumpDestSound ==
    \A i \in 0..(Len(bytecode) + 1) :
        is_valid_jump_in(jump_dests, i)
            <=> /\ i < Len(bytecode)
                /\ bytecode[i + 1] = OpJumpDest
                /\ ~InPushWindow(bytecode, i)

\* C10 (jump-dest soundness): is_valid_jump(i) holds exactly when i is within
\* the bytecode, the byte at i is 0x5B and i lies in no PUSH window of the
\* linear scan; and no operation modifies the bitmap.
C10_JumpDestSound == []JumpDestSound /\ [][jump_dests' = jump_dests]_vars

\* After some call, the bytecode has a 0x5B byte inside PUSH data that is not
\* a valid destination and a JUMPDEST that is one.
C10_Witness ==
    /\ last.op # "new"
    /\ \E i \in 0..(Len(bytecode) - 1) :
           /\ bytecode[i + 1] = OpJumpDest
           /\ InPushWindow(bytecode, i)
           /\ ~is_valid_jump_in(jump_dests, i)
    /\ \E i \in 0..(Len(bytecode) - 1) : is_valid_jump_in(jump_dests, i)

\* The stack is within its capacity, a push at capacity fails with
\* StackOverflow{max} and a pop of the empty stack with StackUnderflow, each
\* leaving the stack as it was.
StackWithinBounds ==
    LET stack == vm.state.stack
    IN /\ Len(stack) >= 0
       /\ Len(stack) <= MAX_STACK_SIZE
       /\ Len(stack) = MAX_STACK_SIZE
          => push(stack, ONE) = [stack |-> stack, err |-> StackOverflow(MAX_STACK_SIZE)]
       /\ Len(stack) < MAX_STACK_SIZE => push(stack, ONE).err = NoError
       /\ Len(stack) = 0
          => /\ pop(stack).err = StackUnderflow(1, 0)
             /\ pop(stack).stack = stack
       /\ Len(stack) > 0 => pop(stack).err = NoError

\* C11 (stack bounds): in every reachable state 0 <= stack.len <= 1024; a push
\* at capacity fails with StackOverflow{max} and a pop of the empty stack with
\* StackUnderflow, and a step_forward that reports either leaves the stack as
\* it found it.
C11_StackBounds ==
    /\ []StackWithinBounds
    /\ [][(last'.op = "step_forward" /\ last'.res.kind = "Err")
          => /\ last'.res.err.name = "StackOverflow"
                => /\ Len(vm.state.stack) = MAX_STACK_SIZE
                   /\ last'.res.err = StackOverflow(MAX_STACK_SIZE)
                   /\ vm'.state.stack = vm.state.stack
             /\ last'.res.err.name = "StackUnderflow"
                => vm'.state.stack = vm.state.stack]_vars

\* A step_forward has found the stack full and returned StackOverflow.
C11_Witness ==
    /\ last.op = "step_forward"
    /\ last.res = Err(StackOverflow(MAX_STACK_SIZE))
    /\ Len(vm.state.stack) = MAX_STACK_SIZE

\* C12 (gas non-negativity), as claimed: gas is never below zero; a
\* step_forward on an opcode whose base_gas exceeds the gas left returns
\* OutOfGas{required, available} without deducting; and a step_forward that
\* succeeds never raises gas.
C12_GasClaim ==
    /\ [](vm.state.gas >= 0)
    /\ [][last'.op = "step_forward"
          => LET st == vm.state
                 b == bytecode[st.pc + 1]
             IN /\ (/\ st.pc < Len(bytecode)
                    /\ from_u8(b)
                    /\ base_gas(b) > st.gas)
                   => /\ last'.res = Err(OutOfGas(base_gas(b), st.gas))
                      /\ vm'.state.gas = st.gas
                /\ last'.res.kind # "Err" => vm'.state.gas <= st.gas]_vars

\* C12 as amended: the same, where OutOfGas is owed only when the stack holds
\* the inputs of the opcode (StackUnderflow comes first), and no failing
\* step_forward deducts gas.
C12_GasNonNegative ==
    /\ [](vm.state.gas >= 0)
    /\ [][last'.op = "step_forward"
          => LET st == vm.state
                 b == bytecode[st.pc + 1]
             IN /\ (/\ st.pc < Len(bytecode)
                    /\ from_u8(b)
                    /\ Len(st.stack) >= stack_inputs(b)
                    /\ base_gas(b) > st.gas)
                   => /\ last'.res = Err(OutOfGas(base_gas(b), st.gas))
                      /\ vm'.state.gas = st.gas
                /\ last'.res.kind = "Err" => vm'.state.gas = st.gas
                /\ last'.res.kind # "Err" => vm'.state.gas <= st.gas]_vars

\* A step_forward has returned OutOfGas with some gas left.
C12_Witness ==
    /\ last.op = "step_forward"
    /\ vm.state.pc < Len(bytecode)
    /\ vm.state.gas > 0
    /\ last.res = Err(OutOfGas(base_gas(bytecode[vm.state.pc + 1]), vm.state.gas))

\* The opcodes whose step_forward returns Halted.
HaltingOpcodes == {OpStop, OpReturn, OpRevert, OpInvalid}

\* The gas the VM was constructed or reset with, while only forward steps
\* have been made since.
InitialGas == IF trail = <<>> THEN vm.state.gas ELSE trail[1].gas

\* A VM constructed afresh from the inputs the VM of the behaviour had.
FreshTwin == Vm_new(InitialGas, vm.journal.checkpoint_interval, vm.journal.max_size)

\* The VM has been driven from construction (or reset) by step_forward alone,
\* and the latest call is the first that halted or failed: where run() stops.
RunEnded ==
    /\ phase \in {"fwd", "failed"}
    /\ last.op = "step_forward"
    /\ last.res.kind \in {"Halted", "Err"}
    /\ last.len <= Len(vm.journal.instructions)
    /\ \A i \in 1..last.len : vm.journal.instructions[i].opcode \notin HaltingOpcodes

\* What run() returns for the step result that ended the loop.
RunOutcome(res, gas_used) ==
    IF res.kind = "Err" THEN res ELSE ExecutionResult(res.reason, gas_used)

RunAgrees(r) ==
    /\ r.res = RunOutcome(last.res, InitialGas - vm.state.gas)
    /\ r.vm.state = vm.state
    /\ r.vm.journal.instructions = vm.journal.instructions
    /\ compute_state_hash(r.vm.state) = compute_state_hash(vm.state)

ReplayAgrees(res, st, r) ==
    /\ res = r.res
    /\ st.pc = r.vm.state.pc
    /\ st.gas = r.vm.state.gas
    /\ st.stack = r.vm.state.stack
    /\ st.memory.data = r.vm.state.memory.data
    /\ \A key \in (DOMAIN st.storage.data) \cup (DOMAIN r.vm.state.storage.data) :
           Storage_get(st.storage, key) = Storage_get(r.vm.state.storage, key)

\* C14 (deterministic replay): after a run from the fresh VM to a halt and
\* step_backward over every journaled instruction, a second run returns the
\* result of the first and ends with the same pc, gas, stack, memory bytes
\* and storage.
C14_Replay ==
    [][(phase = "unran" /\ vm.journal.instructions = <<>> /\ last'.op = "run")
       => ReplayAgrees(last'.res, vm'.state, run(FreshTwin, bytecode, jump_dests))]_vars

\* The journal's latest instruction is the opcode, about to be stepped back
\* over, and trail holds the state it ran in.
Rewinding(opcode) ==
    /\ last'.op = "step_backward"
    /\ vm.journal.instructions # <<>>
    /\ vm.journal.instructions[Len(vm.journal.instructions)].opcode = opcode
    /\ Len(trail) = Len(vm.journal.instructions)

\* Every key reads in storage a what it reads in b, except perhaps key.
SameStorageBut(a, b, key) ==
    \A k \in ((DOMAIN a.data) \cup (DOMAIN b.data)) \ {key} :
        Storage_get(a, k) = Storage_get(b, k)

StorageRewound(before, key) ==
    /\ last'.res = Rewound(1)
    /\ Storage_get(vm'.state.storage, key) = Storage_get(before.storage, key)
    /\ SameStorageBut(vm'.state.storage, vm.state.storage, key)

\* C15 (storage rewind): stepping backward over an SSTORE leaves its key
\* reading the value it had before that SSTORE (ZERO if never written) and
\* every other key reading what it read before the backward step.
C15_StorageRewind ==
    [][Rewinding(OpSStore)
       => StorageRewound(trail[Len(trail)], peek(trail[Len(trail)].stack, 0))]_vars

\* An SSTORE that overwrote a non-zero value with another has been stepped
\* back over.
C15_Witness ==
    /\ last.op = "step_backward"
    /\ last.res = Rewound(1)
    /\ vm.state.pc < Len(bytecode)
    /\ bytecode[vm.state.pc + 1] = OpSStore
    /\ Len(vm.state.stack) >= 2
    /\ Storage_get(vm.state.storage, peek(vm.state.stack, 0))
           \notin {ZERO, peek(vm.state.stack, 1)}

\* The memory offsets an MSTORE (32 bytes) or MSTORE8 (one) at offset writes.
WrittenRange(opcode, offset) ==
    IF opcode = OpMStore THEN offset..(offset + 31) ELSE {offset}

MemoryRewound(before, range) ==
    /\ last'.res = Rewound(1)
    /\ \A o \in range :
           get_byte(vm'.state.memory, o) = get_byte(before.memory, o)
    /\ \A o \in ((DOMAIN vm.state.memory.data) \cup (DOMAIN vm'.state.memory.data))
                    \ range :
           get_byte(vm'.state.memory, o) = get_byte(vm.state.memory, o)
    /\ vm'.state.memory.data = before.memory.data

\* C16 (memory rewind): stepping backward over an MSTORE or MSTORE8 leaves
\* every byte it wrote at the value the byte had before that instruction and
\* every other byte as it was before the backward step; so that after
\* overlapping writes are rewound latest first, all memory bytes are those
\* from before the earliest of them.
C16_MemoryRewind ==
    [][\A opcode \in {OpMStore, OpMStore8} :
           Rewinding(opcode)
           => MemoryRewound(trail[Len(trail)],
                            WrittenRange(opcode,
                                         as_usize(peek(trail[Len(trail)].stack, 0))))]_vars

\* An MSTORE8 that overwrote a non-zero byte of an earlier write with another
\* value has been stepped back over.
C16_Witness ==
    /\ last.op = "step_backward"
    /\ last.res = Rewound(1)
    /\ vm.journal.instructions # <<>>
    /\ vm.state.pc < Len(bytecode)
    /\ bytecode[vm.state.pc + 1] = OpMStore8
    /\ Len(vm.state.stack) >= 2
    /\ peek(vm.state.stack, 1) # ZERO
    /\ get_byte(vm.state.memory, as_usize(peek(vm.state.stack, 0)))
           \notin {0, peek(vm.state.stack, 1)[Len(peek(vm.state.stack, 1))]}

\* The VM after k calls of step_backward, whatever each returns.
RECURSIVE StepBackwardTimes(_, _)
StepBackwardTimes(v, k) ==
    IF k = 0 THEN v ELSE StepBackwardTimes(step_backward(v).vm, k - 1)

RewindDid(n, count) ==
    /\ last'.res = OkCount(count)
    /\ last'.res # Err(JournalExhausted)
    /\ Len(vm'.journal.instructions) = Len(vm.journal.instructions) - count
    /\ vm' = StepBackwardTimes(vm, count)

\* C17 (rewind): rewind(n) returns min(n, journal.len()), never an error,
\* leaves the journal shorter by that count, and leaves the VM as that many
\* step_backward calls would.
C17_Rewind ==
    [][\A n \in RewindCounts :
           Rewind(n) => RewindDid(n, Min(n, Len(vm.journal.instructions)))]_vars

\* pc, gas, stack and the storage reads of the VmState st are those of target.
RewoundTo(st, target) ==
    /\ st.pc = target.pc
    /\ st.gas = target.gas
    /\ st.stack = target.stack
    /\ \A key \in (DOMAIN st.storage.data) \cup (DOMAIN target.storage.data) :
           Storage_get(st.storage, key) = Storage_get(target.storage, key)

RewindToDid(target_index) ==
    /\ last'.res = OkCount(0)
    /\ IF target_index < Len(vm.journal.instructions)
       THEN /\ Len(vm'.journal.instructions) = target_index
            /\ RewoundTo(vm'.state, trail[target_index + 1])
       ELSE vm' = vm

\* C18 (rewind_to): rewind_to(index) with index below the journal length
\* leaves the journal at length index and pc, gas, stack and storage as they
\* were after the first index journaled instructions; with index at or above
\* the length it changes nothing.
C18_RewindTo == [][\A i \in RewindCounts : RewindTo(i) => RewindToDid(i)]_vars

\* The checkpoints of cps that a trim of `trim` instructions keeps, in order.
Surviving(cps, trim) ==
    LET keep(c) == c.instruction_index >= trim IN SelectSeq(cps, keep)

\* The journal new is the journal old after recording one instruction over
\* the cap: pushed is old with that instruction appended, kept the
\* checkpoints of old that survive.
Trimmed(old, new, pushed, kept, trim) ==
    /\ new.instructions = SubSeq(pushed, trim + 1, Len(pushed))
    /\ Len(new.instructions) = Len(old.instructions) + 1 - trim
    /\ Len(new.checkpoints) \in {Len(kept), Len(kept) + 1}
    /\ \A k \in 1..Len(kept) :
           /\ new.checkpoints[k].instruction_index = kept[k].instruction_index - trim
           /\ new.checkpoints[k].state_snapshot = kept[k].state_snapshot
           /\ kept[k].instruction_index < Len(pushed)
              => new.instructions[new.checkpoints[k].instruction_index + 1]
                     = pushed[kept[k].instruction_index + 1]
    /\ Len(new.checkpoints) = Len(kept) + 1
       => new.checkpoints[Len(kept) + 1].instruction_index = Len(new.instructions)

\* C19 (journal cap): a step_forward that records an instruction and makes
\* the length exceed max_size drops exactly the oldest floor(max_size / 10)
\* instructions and keeps the rest in order; it removes every checkpoint
\* whose index is below that count, lowers the index of every other by that
\* count and keeps its snapshot, so that the checkpoint stands before the
\* same retained instruction as it did (a checkpoint step_forward itself then
\* adds comes after them).
C19_JournalCap ==
    [][(/\ last'.op = "step_forward"
        /\ Records(last'.res)
        /\ Len(vm.journal.instructions) + 1 > vm.journal.max_size)
       => Trimmed(vm.journal, vm'.journal,
                  Append(vm.journal.instructions,
                         vm'.journal.instructions[Len(vm'.journal.instructions)]),
                  Surviving(vm.journal.checkpoints, vm.journal.max_size \div 10),
                  vm.journal.max_size \div 10)]_vars

\* A step_forward at the cap has dropped instructions and left a checkpoint
\* with a lowered index, which still stands at the state the instruction
\* after it ran in.
C19_Witness ==
    /\ last.op = "step_forward"
    /\ last.res.kind = "Executed"
    /\ last.len = vm.journal.max_size
    /\ Len(vm.journal.instructions) < last.len + 1
    /\ Len(trail) = Len(vm.journal.instructions)
    /\ \E k \in 1..Len(vm.journal.checkpoints) :
           LET c == vm.journal.checkpoints[k]
           IN /\ c.instruction_index % vm.journal.checkpoint_interval # 0
              /\ c.instruction_index < Len(trail)
              /\ c.state_snapshot.pc = trail[c.instruction_index + 1].pc
              /\ c.state_snapshot.gas = trail[c.instruction_index + 1].gas

\* The journal holds only a forward run and successful backward steps over
\* it, and now stands at the index of its k-th checkpoint.
RewoundToCheckpoint(k) ==
    /\ phase = "back"
    /\ k <= Len(vm.journal.checkpoints)
    /\ vm.journal.checkpoints[k].instruction_index = Len(vm.journal.instructions)

\* C20 (snapshot restore): once step_backward has brought a forward run back
\* to the journal length of one of its checkpoints, restore_from_snapshot on
\* that checkpoint's snapshot leaves pc, gas, stack, storage reads, memory
\* bytes, memory size, call depth and return data as the backward steps left
\* them.
C20_RestoreAgrees ==
    [][\A k \in 1..MaxCheckpoints :
           (RewoundToCheckpoint(k) /\ RestoreFromSnapshot(k))
           => /\ SameObservable(vm'.state, vm.state)
              /\ vm'.state.memory.data = vm.state.memory.data]_vars

\* C21 (bounded execution by gas): every run() returns an execution result
\* or an error, and every step_forward that returns Executed leaves gas
\* strictly below what it was.
C21_BoundedByGas ==
    [][/\ last'.op = "run"
          => last'.res.kind \in {"Success", "Revert", "Halt", "Err"}
       /\ (last'.op = "step_forward" /\ last'.res.kind = "Executed")
          => vm'.state.gas < vm.state.gas]_vars

\* The number whose big-endian digits are the n bytes of code after offset p
\* (from 0), with zero for the bytes past the end of the code.
RECURSIVE ImmediateValue(_, _, _)
ImmediateValue(code, p, n) ==
    IF n = 0 THEN 0
    ELSE 256 * ImmediateValue(code, p, n - 1)
         + (IF p + n < Len(code) THEN code[p + n + 1] ELSE 0)

\* The deltas of entries with the tag.
Deltas(entries, tag) == LET has(e) == e.tag = tag IN SelectSeq(entries, has)

Pushed(st, n, insn) ==
    /\ Len(vm'.state.stack) = Len(st.stack) + 1
    /\ SubSeq(vm'.state.stack, 1, Len(st.stack)) = st.stack
    /\ BytesNat(peek(vm'.state.stack, 0)) = ImmediateValue(bytecode, st.pc, n)
    /\ vm'.state.pc = st.pc + 1 + n
    /\ Deltas(insn.entries, "StackPush") = <<StackPush(peek(vm'.state.stack, 0))>>
    /\ \A k \in 1..Len(insn.entries) :
           insn.entries[k].tag \in {"StackPush", "GasChange", "PcChange"}

\* C22 (PUSH equivalence): a successful PUSHn at pc p leaves on top of the
\* stack, grown by one, the big-endian value of bytecode[p+1 .. p+n] with
\* zero for positions past the end, leaves pc at p + 1 + n, and journals one
\* StackPush of that value and no other stack, memory or storage delta.
C22_PushValue ==
    [][(/\ last'.op = "step_forward"
        /\ last'.res.kind = "Executed"
        /\ is_push(NextOpcode))
       => Pushed(vm.state, immediate_size(NextOpcode),
                 vm'.journal.instructions[Len(vm'.journal.instructions)])]_vars

\* A PUSH2 whose second immediate byte lies past the end of the bytecode has
\* pushed its first immediate byte times 256.
C22_Witness ==
    /\ last.op = "step_forward"
    /\ last.res = Executed(OpPush2, 3)
    /\ vm.state.pc = Len(bytecode) + 1
    /\ vm.state.stack # <<>>
    /\ peek(vm.state.stack, 0) = <<bytecode[Len(bytecode)], 0>>

\* C23 (STOP changes nothing): a step_forward that executes STOP returns
\* Halted{Stop} and leaves pc, gas, stack, memory and storage as they were.
C23_StopNoChange ==
    [][(last'.op = "step_forward" /\ NextOpcode = OpStop)
       => /\ last'.res = Halted(HaltStop)
          /\ SameMachine(vm'.state, vm.state)]_vars

\* The snapshot holds the pc, gas, stack, memory contents, storage, call
\* depth and return data of the VmState st.
SnapshotOf(snapshot, st) ==
    /\ snapshot.pc = st.pc
    /\ snapshot.gas = st.gas
    /\ snapshot.stack = st.stack
    /\ Len(snapshot.memory) = st.memory.size
    /\ \A o \in 1..Len(snapshot.memory) :
           snapshot.memory[o] = get_byte(st.memory, o - 1)
    /\ \A key \in (DOMAIN snapshot.storage) \cup (DOMAIN st.storage.data) :
           Storage_get(st.storage, key)
               = (IF key \in DOMAIN snapshot.storage THEN snapshot.storage[key] ELSE ZERO)
    /\ snapshot.call_depth = st.call_depth
    /\ snapshot.return_data = st.return_data

\* The snapshots of a sequence of checkpoints.
Snapshots(cps) == [k \in 1..Len(cps) |-> cps[k].state_snapshot]

\* The call that led to the next state appended an instruction journal and
\* left the length of the journal a positive multiple of the interval.
CheckpointDue ==
    /\ last'.op = "step_forward"
    /\ Records(last'.res)
    /\ Len(vm'.journal.instructions) > 0
    /\ Len(vm'.journal.instructions) % vm.journal.checkpoint_interval = 0

CheckpointAdded(old, new) ==
    /\ new # <<>>
    /\ new[Len(new)].instruction_index = Len(vm'.journal.instructions)
    /\ SnapshotOf(new[Len(new)].state_snapshot, vm'.state)
    /\ \E trim \in {0, vm.journal.max_size \div 10} :
           Snapshots(SubSeq(new, 1, Len(new) - 1)) = Snapshots(Surviving(old, trim))

NoCheckpointAdded(old, new) ==
    \/ new = <<>>
    \/ \E trim \in {0, vm.journal.max_size \div 10} :
           Snapshots(new) = Snapshots(Surviving(old, trim))

\* C24 (checkpoint cadence): a step_forward that appends an instruction
\* journal and leaves the journal length a positive multiple of the interval
\* appends one checkpoint, whose index is that length and whose snapshot is
\* the state the step left; any other call adds no checkpoint (it keeps the
\* earlier ones, or those a trim or a reset leaves).
C24_Cadence ==
    [][IF CheckpointDue
       THEN CheckpointAdded(vm.journal.checkpoints, vm'.journal.checkpoints)
       ELSE NoCheckpointAdded(vm.journal.checkpoints, vm'.journal.checkpoints)]_vars

\* A step_forward at the cap has trimmed the journal to a multiple of the
\* interval and taken a checkpoint there.
C24_Witness ==
    /\ last.op = "step_forward"
    /\ last.res.kind = "Executed"
    /\ last.len = vm.journal.max_size
    /\ Len(vm.journal.instructions) < last.len
    /\ Len(vm.journal.instructions) % vm.journal.checkpoint_interval = 0
    /\ vm.journal.checkpoints # <<>>
    /\ vm.journal.checkpoints[Len(vm.journal.checkpoints)].instruction_index
           = Len(vm.journal.instructions)
    /\ SnapshotOf(vm.journal.checkpoints[Len(vm.journal.checkpoints)].state_snapshot,
                  vm.state)

\* The jump about to run is taken: a JUMP, or a JUMPI whose condition (the
\* second item from the top) is not zero.
JumpTaken ==
    \/ NextOpcode = OpJump
    \/ NextOpcode = OpJumpI /\ peek(vm.state.stack, 1) # ZERO

\* C25 (jump target preserved): after a successful JUMP, or JUMPI with a
\* non-zero condition, pc is the popped destination and the journal holds
\* one PcChange, from the pc of the jump to the destination; a JUMPI with a
\* zero condition succeeds whatever its destination and leaves pc one past
\* its own.
C25_JumpTarget ==
    [][(last'.op = "step_forward" /\ NextOpcode \in {OpJump, OpJumpI})
       => IF JumpTaken
          THEN last'.res.kind = "Executed"
               => /\ U256_from(vm'.state.pc) = peek(vm.state.stack, 0)
                  /\ Deltas(vm'.journal.instructions[Len(vm'.journal.instructions)].entries,
                            "PcChange")
                         = <<PcChange(vm.state.pc, vm'.state.pc)>>
          ELSE /\ last'.res.kind = "Executed"
               /\ vm'.state.pc = vm.state.pc + 1]_vars

\* The LOGk, environmental, call and create opcodes.
IsNoOpOpcode(b) ==
    \/ is_log(b)
    \/ InRange(b, 48, 72) /\ from_u8(b)
    \/ b \in {240, 241, 242, 244, 245, 250, 255}

\* The top n items of the stack, the top first.
TopItems(stack, n) == [k \in 1..n |-> peek(stack, k - 1)]

\* C26 (no-op opcodes): a successful step_forward at a LOGk, environmental,
\* call or create opcode deducts the base gas, journals that GasChange, and
\* removes stack_inputs(opcode) items from the stack, with one StackPop delta
\* for each of them.
C26_NoOpDiscards ==
    [][(/\ last'.op = "step_forward"
        /\ last'.res.kind = "Executed"
        /\ NextOpcode # -1
        /\ IsNoOpOpcode(NextOpcode))
       => LET st == vm.state
              n == stack_inputs(NextOpcode)
              insn == vm'.journal.instructions[Len(vm'.journal.instructions)]
          IN /\ vm'.state.gas = st.gas - base_gas(NextOpcode)
             /\ Deltas(insn.entries, "GasChange")
                    = <<GasChange(st.gas, st.gas - base_gas(NextOpcode))>>
             /\ vm'.state.stack = SubSeq(st.stack, 1, Len(st.stack) - n)
             /\ Deltas(insn.entries, "StackPop")
                    = [k \in 1..n |-> StackPop(TopItems(st.stack, n)[k])]]_vars

\* C27 (RETURN / REVERT peek): a step_forward at RETURN or REVERT halts with
\* the bytes of memory at [offset, offset + size), zero where nothing was
\* written, and leaves the size and the contents of memory as they were.
C27_ReturnPeeks ==
    [][(last'.op = "step_forward" /\ NextOpcode \in {OpReturn, OpRevert})
       => LET offset == as_usize(peek(vm.state.stack, 0))
              size == as_usize(peek(vm.state.stack, 1))
              bytes == [i \in 1..size |->
                            IF (offset + i - 1) \in DOMAIN vm.state.memory.data
                            THEN vm.state.memory.data[offset + i - 1] ELSE 0]
          IN /\ last'.res.kind = "Halted"
             /\ last'.res.reason.reason
                    = (IF NextOpcode = OpReturn THEN "Return" ELSE "Revert")
             /\ last'.res.reason.data = bytes
             /\ vm'.state.memory.size = vm.state.memory.size
             /\ vm'.state.memory.data = vm.state.memory.data]_vars

\* a < b as 256-bit unsigned integers, on words without leading zero bytes.
WordLess(a, b) ==
    IF Len(a) # Len(b) THEN Len(a) < Len(b)
    ELSE \E i \in 1..Len(a) :
             /\ a[i] < b[i]
             /\ \A j \in 1..(i - 1) : a[j] = b[j]

\* q is floor(a / b) in the cases that need no long division: a below b, a
\* equal to b, or both operands of at most three bytes.
QuotientIs(q, a, b) ==
    /\ WordLess(a, b) => q = ZERO
    /\ a = b => q = ONE
    /\ (Len(a) <= 3 /\ Len(b) <= 3) => q = U256_from(BytesNat(a) \div BytesNat(b))

\* C28 (DIV is total): a step_forward at DIV with a on top of b succeeds,
\* replaces the two operands by one word, ZERO when b = 0 and floor(a / b)
\* otherwise, also when b is not zero but its low 64 bits are.
C28_DivTotal ==
    [][(last'.op = "step_forward" /\ NextOpcode = OpDiv)
       => LET a == peek(vm.state.stack, 0)
              b == peek(vm.state.stack, 1)
          IN /\ last'.res = Executed(OpDiv, base_gas(OpDiv))
             /\ Len(vm'.state.stack) = Len(vm.state.stack) - 1
             /\ IF b = ZERO THEN peek(vm'.state.stack, 0) = ZERO
                ELSE QuotientIs(peek(vm'.state.stack, 0), a, b)]_vars

\* C29 (full-width comparison): a step_forward at LT, GT or EQ with a on top
\* of b succeeds and replaces the two operands by ONE if a < b, a > b or
\* a = b as 256-bit unsigned integers, by ZERO otherwise.
C29_Compare ==
    [][(last'.op = "step_forward" /\ NextOpcode \in {OpLt, OpGt, OpEq})
       => LET a == peek(vm.state.stack, 0)
              b == peek(vm.state.stack, 1)
              holds == IF NextOpcode = OpLt THEN WordLess(a, b)
                       ELSE IF NextOpcode = OpGt THEN WordLess(b, a)
                       ELSE a = b
          IN /\ last'.res = Executed(NextOpcode, base_gas(NextOpcode))
             /\ Len(vm'.state.stack) = Len(vm.state.stack) - 1
             /\ peek(vm'.state.stack, 0) = (IF holds THEN ONE ELSE ZERO)]_vars

\* The last call was a step_forward with pc at or past the end of the code.
FellOff ==
    /\ last.op = "step_forward"
    /\ last.res = Halted(HaltStop)
    /\ vm.state.pc >= Len(bytecode)
    /\ last.len = Len(vm.journal.instructions)

\* C30 (falling off the end is not journaled): a step_forward with pc at or
\* past the end of the bytecode returns Halted{Stop} and leaves the state,
\* the journal and the checkpoints as they were, each time it is called; a
\* step_backward right after it, when only successful forward steps came
\* before, removes the last instruction journal and restores the pc, gas,
\* stack and storage that instruction found.
C30_FallOff ==
    [][/\ (last'.op = "step_forward" /\ vm.state.pc >= Len(bytecode))
          => /\ last'.res = Halted(HaltStop)
             /\ vm' = vm
       /\ (/\ last'.op = "step_backward"
           /\ FellOff
           /\ phase = "fwd"
           /\ vm.journal.instructions # <<>>)
          => /\ last'.res = Rewound(1)
             /\ vm'.journal.instructions
                    = SubSeq(vm.journal.instructions, 1, Len(vm.journal.instructions) - 1)
             /\ RewoundTo(vm'.state, trail[Len(trail)])]_vars

\* A step_forward has fallen off the end of a program whose last instruction
\* is not a STOP, and the journal still ends with that instruction.
C30_Witness ==
    /\ FellOff
    /\ phase = "fwd"
    /\ vm.journal.instructions # <<>>
    /\ vm.journal.instructions[Len(vm.journal.instructions)].opcode # OpStop
    /\ vm.journal.instructions[Len(vm.journal.instructions)].pc < Len(bytecode)

\* The sum of base_gas over the instruction journals from..to of instructions.
RECURSIVE BaseGasSum(_, _, _)
BaseGasSum(instructions, from, to) ==
    IF from > to THEN 0
    ELSE base_gas(instructions[to].opcode) + BaseGasSum(instructions, from, to - 1)

\* The instruction journal accounts for the base gas of its opcode.
GasAccounted(insn) ==
    /\ insn.gas_before - insn.gas_after = base_gas(insn.opcode)
    /\ Deltas(insn.entries, "GasChange") = <<GasChange(insn.gas_before, insn.gas_after)>>

\* C31 (gas accounting): every journaled instruction has gas_before -
\* gas_after = base_gas(opcode) and exactly one GasChange{gas_before,
\* gas_after}; Executed.gas_used is base_gas(opcode); the gas_used that run()
\* reports is the sum of base_gas over the instructions it journaled.
C31_GasAccounting ==
    [][/\ \A k \in 1..Len(vm'.journal.instructions) :
              GasAccounted(vm'.journal.instructions[k])
       /\ (last'.op = "step_forward" /\ last'.res.kind = "Executed")
          => last'.res.gas_used = base_gas(NextOpcode)
       /\ (last'.op = "run" /\ last'.res.kind \in {"Success", "Revert", "Halt"})
          => last'.res.gas_used
                 = BaseGasSum(vm'.journal.instructions,
                              Len(vm.journal.instructions) + 1,
                              Len(vm'.journal.instructions))]_vars

\* A run() has journaled three instructions or more and reported the gas
\* they used.
C31_Witness ==
    /\ last.op = "run"
    /\ last.res.kind = "Success"
    /\ Len(vm.journal.instructions) >= last.len + 3
    /\ last.res.gas_used > 0
    /\ last.res.gas_used
           = BaseGasSum(vm.journal.instructions, last.len + 1, Len(vm.journal.instructions))

\* The breakpoint holds in the VmState st after `count` counted instructions:
\* pc-equals, opcode-equals on the byte at pc, gas-below, after-N; the
\* storage-access and memory-access variants never hold.
Holds(bp, st, count) ==
    \/ bp.tag = "Address" /\ st.pc = bp.addr
    \/ bp.tag = "Opcode" /\ st.pc < Len(bytecode) /\ bytecode[st.pc + 1] = bp.op
    \/ bp.tag = "GasBelow" /\ st.gas < bp.threshold
    \/ bp.tag = "AfterInstructions" /\ count >= bp.n

\* The positions in the list of the breakpoints that hold.
Holding(breakpoints, st, count) ==
    {k \in 1..Len(breakpoints) : Holds(breakpoints[k].bp, st, count)}

\* id is the id of the first breakpoint of the list that holds.
FirstHolding(id, breakpoints, st, count) ==
    \E k \in Holding(breakpoints, st, count) :
        /\ breakpoints[k].id = id
        /\ \A j \in Holding(breakpoints, st, count) : k <= j

\* What run_forward returned is what Vm::run returns from the same state.
AgreesWithRun(res, outcome) ==
    /\ vm' = outcome.vm
    /\ IF outcome.res.kind = "Err" THEN res = outcome.res
       ELSE /\ res.kind = "StopHalt"
            /\ ExecutionResult(res.reason, vm.state.gas - vm'.state.gas) = outcome.res

\* C32 (run_forward): run_forward returns Breakpoint(id) only in a state
\* where the breakpoint id holds and none before it in the list does; from a
\* state where a breakpoint holds it returns at once and changes nothing;
\* no instruction it journals started in a state where a breakpoint held;
\* when it returns a halt, and whenever the list has only StorageAccess and
\* MemoryAccess breakpoints, it ends as Vm::run does, at the first halt.
C32_RunForward ==
    [][last'.op = "run_forward"
       => /\ last'.res.kind = "Breakpoint"
             => FirstHolding(last'.res.id, dbg'.breakpoints, vm'.state,
                             dbg'.instruction_count)
          /\ Holding(dbg.breakpoints, vm.state, dbg.instruction_count) # {}
             => /\ last'.res.kind = "Breakpoint"
                /\ vm' = vm
                /\ dbg' = dbg
          /\ \A j \in 1..(Len(vm'.journal.instructions) - Len(vm.journal.instructions)) :
                 Holding(dbg.breakpoints, trail'[Len(vm.journal.instructions) + j],
                         dbg.instruction_count + j - 1) = {}
          /\ dbg'.breakpoints = dbg.breakpoints
          /\ (\/ last'.res.kind = "StopHalt"
              \/ \A k \in 1..Len(dbg.breakpoints) :
                     dbg.breakpoints[k].bp.tag \in {"StorageAccess", "MemoryAccess"})
             => AgreesWithRun(last'.res, run(vm, bytecode, jump_dests))]_vars

\* run_forward has executed an instruction and stopped at the second
\* breakpoint of the list, the first not holding.
C32_Witness ==
    /\ last.op = "run_forward"
    /\ last.res.kind = "Breakpoint"
    /\ Len(vm.journal.instructions) > last.len
    /\ Len(dbg.breakpoints) >= 2
    /\ dbg.breakpoints[2].id = last.res.id
    /\ ~Holds(dbg.breakpoints[1].bp, vm.state, dbg.instruction_count)

\* run_backward stopped after n backward steps, at the first state, scanning
\* backward, whose journal is empty or in which a breakpoint holds.
StoppedAfter(n) ==
    /\ vm' = StepBackwardTimes(vm, n)
    /\ dbg'.instruction_count = saturating_sub(dbg.instruction_count, n)
    /\ \A m \in 0..(n - 1) :
           Holding(dbg.breakpoints, StepBackwardTimes(vm, m).state,
                   saturating_sub(dbg.instruction_count, m)) = {}

\* C33 (run_backward): run_backward returns ReachedBeginning exactly when it
\* finds the journal empty, also when a breakpoint holds there; otherwise it
\* returns Breakpoint(id) at the first state, scanning backward, where a
\* breakpoint holds, id being the first that does; with no breakpoints it
\* ends with an empty journal and the pc, gas and stack of the initial state.
C33_RunBackward ==
    [][last'.op = "run_backward"
       => /\ last'.res.kind \in {"ReachedBeginning", "Breakpoint"}
          /\ last'.res = ReachedBeginning <=> vm'.journal.instructions = <<>>
          /\ last'.res.kind = "Breakpoint"
             => FirstHolding(last'.res.id, dbg.breakpoints, vm'.state,
                             dbg'.instruction_count)
          /\ \E n \in 0..Len(vm.journal.instructions) : StoppedAfter(n)
          /\ (dbg.breakpoints = <<>> /\ vm.journal.instructions # <<>>)
             => /\ vm'.journal.instructions = <<>>
                /\ vm'.state.pc = 0
                /\ vm'.state.gas = vm.journal.instructions[1].gas_before
                /\ vm'.state.stack = <<>>]_vars

\* The number of bytes an MLOAD, MSTORE (32) or MSTORE8 (one) touches.
AccessWidth(opcode) == IF opcode = OpMStore8 THEN 1 ELSE 32

\* C34 (memory size is a high-water mark): no successful step_forward or
\* step_backward makes the memory size smaller; after an MLOAD, MSTORE or
\* MSTORE8 at offset o the size is at least o + 32, o + 32 and o + 1; an
\* MLOAD of 32 bytes none of which holds a written value pushes zero.
C34_HighWater ==
    [][(last'.op \in {"step_forward", "step_backward"} /\ last'.res.kind # "Err")
       => /\ vm'.state.memory.size >= vm.state.memory.size
          /\ (last'.op = "step_forward" /\ NextOpcode \in {OpMLoad, OpMStore, OpMStore8})
             => LET o == as_usize(peek(vm.state.stack, 0))
                IN /\ vm'.state.memory.size >= o + AccessWidth(NextOpcode)
                   /\ (/\ NextOpcode = OpMLoad
                       /\ \A i \in o..(o + 31) : i \notin DOMAIN vm.state.memory.data)
                      => peek(vm'.state.stack, 0) = ZERO]_vars

\* An access below the high-water mark has left the size where it was, above
\* the end of the access.
C34_Witness ==
    /\ last.op = "step_forward"
    /\ last.res.kind = "Executed"
    /\ last.res.opcode \in {OpMLoad, OpMStore8}
    /\ vm.journal.instructions[Len(vm.journal.instructions)].pc > 3
    /\ bytecode[vm.journal.instructions[Len(vm.journal.instructions)].pc] = 1
    /\ vm.state.memory.size > 33

\* C35 (journal verification by state hash): after successful forward steps
\* and then successful backward steps, while the journal is not empty, the
\* state_hash of the newest instruction journal is compute_state_hash of the
\* current state.
C35_StateHash ==
    (phase \in {"fwd", "back"} /\ vm.journal.instructions # <<>>)
        => vm.journal.instructions[Len(vm.journal.instructions)].state_hash
               = compute_state_hash(vm.state)

\* The indices of the stored checkpoints that are below i.
IndicesBelow(i) ==
    {vm.journal.checkpoints[k].instruction_index : k \in 1..Len(vm.journal.checkpoints)}
        \cap 0..(i - 1)

\* C36 (nearest earlier checkpoint): find_checkpoint_before(i) returns a
\* checkpoint whose index is the greatest stored index below i, and nothing
\* only when no stored index is below i.
C36_NearestCheckpoint ==
    \A i \in 0..(Len(bytecode) + 1) :
        IF IndicesBelow(i) = {}
        THEN find_checkpoint_before(vm.journal, i) = NoCheckpoint
        ELSE /\ find_checkpoint_before(vm.journal, i) # NoCheckpoint
             /\ \A index \in IndicesBelow(i) :
                    find_checkpoint_before(vm.journal, i).instruction_index >= index

\* C37 (checkpoints never point past the journal): every stored checkpoint
\* has an index of at most the length of the journal, and no two stored
\* checkpoints have the same index.
C37_CheckpointsWithin ==
    /\ \A k \in 1..Len(vm.journal.checkpoints) :
           vm.journal.checkpoints[k].instruction_index <= Len(vm.journal.instructions)
    /\ \A k, m \in 1..Len(vm.journal.checkpoints) :
           k # m => vm.journal.checkpoints[k].instruction_index
                        # vm.journal.checkpoints[m].instruction_index

\* C38 (the cap is an upper bound): whatever the cap, the journal is never
\* longer than it once a call has returned.
C38_CapIsBound == Len(vm.journal.instructions) <= vm.journal.max_size

\* The number of instruction journals of non-halting instructions.
ExecutedCount(instructions) ==
    Cardinality({k \in 1..Len(instructions) : instructions[k].opcode \notin HaltingOpcodes})

\* C39 (the instruction counter tracks history): on a program none of whose
\* instructions fails, after any calls of the debugger, instruction_count is
\* the number of non-halting instructions recorded in the journal.
C39_CounterTracks ==
    (\A k \in 1..Len(bytecode) : bytecode[k] # OpJump)
        => dbg.instruction_count = ExecutedCount(vm.journal.instructions)

\* C40 (the arity table agrees with the executor): a successful step_forward
\* that executes an opcode changes the length of the stack by
\* stack_outputs(opcode) - stack_inputs(opcode).
C40_ArityAgrees ==
    [][(/\ last'.op = "step_forward"
        /\ Returned(last'.res)
        /\ NextOpcode # -1)
       => Len(vm'.state.stack)
              = Len(vm.state.stack) + stack_outputs(NextOpcode) - stack_inputs(NextOpcode)]_vars

====
